---- MODULE Spec2Model ----
(***************************************************************************)
(* Batch scheduler and pooled scraper of the SIRET extractor API.          *)
(*                                                                         *)
(* The model follows app/api/routes.py (BatchState, the background batch   *)
(* task and its per-URL coroutine) and app/scraper/playwright_scraper.py   *)
(* (the context pool, scrape_url with its tenacity retry wrapper, the      *)
(* homepage fetch and the legal-page fan-out).  The coroutines run on one *)
(* asyncio event loop: code that runs without an await in between is a     *)
(* single step.  Awaits that touch only the caller's own context are       *)
(* folded into the neighbouring step: new_page with the start of the       *)
(* homepage navigation, the waits and reads after page.goto with the end   *)
(* of the fetch, and the completions of the gathered legal pages with the  *)
(* return of asyncio.gather.                                               *)
(*                                                                         *)
(* Further components are modelled on their own, each with its own         *)
(* specification over its own variables:                                   *)
(*   ClassifierSpec  should_retry_exception on the messages page.goto      *)
(*                   raises;                                               *)
(*   OverrideSpec    the batch, submitted with any max_retries override;   *)
(*   AttemptSpec     one attempt of scrape_url page by page, and the       *)
(*                   ExtractionResult built from what it returns;          *)
(*   NodriverSpec    scrape_site of the nodriver version;                  *)
(*   ProxySpec       one ProxyManager under any settings.                  *)
(***************************************************************************)
EXTENDS Integers, Sequences, FiniteSets, TLC

\* ------------------------------------------------------------------ bounds
MaxUrls == 2          \* largest batch explored (the API accepts 1..100)
MaxWorkers == 2       \* largest concurrent_workers explored (the API accepts 1..50)
MaxPoolSize == 1      \* largest settings.max_concurrent_workers explored

\* ------------------------------------------------------- program constants
MAX_LEGAL_PAGES_TO_CHECK == 5
max_retries == 3                   \* settings.max_retries
max_retries_default == 3           \* default of BatchExtractionRequest.max_retries
max_retries_le == 10               \* upper limit of BatchExtractionRequest.max_retries

NoContext == 0

\* Failure messages a page fetch can raise, as the lower-cased text that
\* should_retry_exception inspects, one token per recognisable fragment.
TimeoutMsg == <<"timeout 60000ms exceeded">>
AbortedMsg == <<"net::err_aborted">>
DnsMsg == <<"net::err_name_not_resolved">>
FetchFailures == {TimeoutMsg, AbortedMsg, DnsMsg}

permanent_errors ==
    { "net::err_name_not_resolved", "net::err_connection_refused",
      "net::err_connection_closed", "net::err_cert_", "ns_error_unknown_host",
      "404", "not found", "dns", "enotfound", "econnrefused" }

VARIABLES
    total_urls,          \* BatchState.total_urls == len(urls)
    concurrent_workers,  \* the batch's concurrent_workers
    pool_size,           \* PlaywrightScraper.pool_size
    bgpc,                \* position of process_batch_background
    semaphore,           \* free permits of the asyncio.Semaphore
    pc,                  \* position of each process_url_with_semaphore task
    held,                \* the context each scrape_url attempt holds
    attempt,             \* attempt_number of the retry wrapper, 0 outside a call
    failure,             \* outcome of the retry wrapper: the exception of the failed attempt
    outcome,             \* what the running attempt is about to return or raise
    legalNav,            \* legal-page navigations of the attempt still in flight
    context_pool,        \* PlaywrightScraper.context_pool
    context_pool_lock,   \* holder of the pool lock, -1 when free
    pages,               \* open pages of each context
    navs,                \* navigations in progress on each context
    created,             \* number of contexts created so far
    completed, success, failed, in_progress, results   \* BatchState

VARIABLES
    request_max_retries, \* BatchExtractionRequest.max_retries of the submitted batch
    exception,           \* retry classifier: the exception handed to should_retry_exception
    retry,               \* retry classifier: the verdict returned for it
    home_page,           \* one attempt: the homepage fetch and the identifiers it returned
    legal_page,          \* one attempt: each gathered scrape_legal_page and what it returned
    legal_log,           \* one attempt: the exception each scrape_legal_page caught
    legal_return,        \* one attempt: how scrape_url ended, and with which identifiers
    extraction,          \* one attempt: the ExtractionResult built from the return value
    nd_pc,               \* nodriver scrape_site: position in the function
    nd_headless,         \* nodriver scrape_site: the headless argument of the running call
    nd_retry,            \* nodriver scrape_site: the retry_non_headless argument of the running call
    nd_calls,            \* nodriver scrape_site: calls made for the site (1 + restarts)
    nd_path,             \* nodriver scrape_site: legal paths taken from the list so far
    nd_links,            \* nodriver scrape_site: matching footer links found on the homepage
    nd_link,             \* nodriver scrape_site: footer links taken from the list so far
    nd_visited,          \* nodriver scrape_site: tab.get calls for candidate pages of the running call
    nd_identifiers,      \* nodriver scrape_site: whether result.identifiers is non-empty
    nd_status,           \* nodriver scrape_site: result.status
    settings_proxy_list,     \* settings.proxy_list
    proxy_rotation_enabled,  \* settings.proxy_rotation_enabled
    proxy_list,          \* ProxyManager.proxy_list
    shares_settings,     \* ProxyManager.proxy_list is the settings.proxy_list object
    current_index,       \* ProxyManager.current_index
    enabled,             \* ProxyManager.enabled
    given,               \* the proxy_list argument the manager was constructed with
    returned,            \* what get_next_proxy returned, call by call, since construction
                         \* (once the list was touched, the latest call only)
    changed,             \* whether add_proxy or remove_proxy was called since construction
    removed              \* the proxies remove_proxy took from the list and add_proxy has not put back

\* ------------------------------------------------- further components: state
VARIABLES
    loaded_proxies,      \* distribute_proxies_to_workers: the proxy_list argument
    num_workers,         \* distribute_proxies_to_workers: the num_workers argument
    proxies_per_worker,  \* distribute_proxies_to_workers: the proxies_per_worker argument
    proxy_managers,      \* the managers it returned, each with the calls made on it
    request_proxies,     \* process_batch_background: proxy_manager.proxy_list, empty without a manager
    assign_pc,           \* process_batch_background: whether worker_proxies has been built
    worker_proxies,      \* process_batch_background: the proxy of each worker slot
    url_runs,            \* process_url_with_semaphore: slot and proxy of each URL taken up, and the proxy of each scrape_url attempt
    now,                 \* time.time()
    start_time,          \* BatchState.start_time
    batch_duration,      \* process_batch_background: batch_duration, -1 until the batch has ended
    progress,            \* the BatchProgress the latest get_batch_progress call returned
    body_urls,           \* POST /api/extract/batch: the urls of the request body, each URL by its normalised text (0: not a URL)
    body_workers,        \* POST /api/extract/batch: concurrent_workers of the request body
    submit_pc,           \* POST /api/extract/batch: how far the request has got
    status_code,         \* POST /api/extract/batch: the status of the response, 0 before it is sent
    batch_store,         \* the BatchState entries created for the request
    background_tasks,    \* the tasks added to BackgroundTasks for the request
    fetched,             \* URLs the background task of the request has taken up
    page_caller,         \* _scrape_single_page: called for the homepage or from scrape_legal_page
    navigation_timeout,  \* settings.navigation_timeout
    page_load_timeout,   \* settings.page_load_timeout
    loaded_after,        \* the time the page takes to reach domcontentloaded
    idle_after,          \* the time the loaded page takes to reach networkidle
    page_pc,             \* _scrape_single_page: position in the function and in its caller
    page_result,         \* what the call gave its caller's caller: nothing yet, identifiers, or an exception
    classified,          \* the verdict of should_retry_exception on the failure, if it was asked
    max_requests,        \* RateLimiter.max_requests
    window_seconds,      \* RateLimiter.window_seconds
    requests,            \* RateLimiter.requests, each recorded time by its age now - req_time (capped at the window)
    lock_holder,         \* RateLimiter.lock: the task holding it, 0 when free
    lock_waiters,        \* RateLimiter.lock: the tasks waiting for it, first come first
    acquire_pc,          \* RateLimiter.acquire: position of each task in its call
    sleep_left,          \* RateLimiter.acquire: what is left of each task's asyncio.sleep
    page_text,           \* extract_identifiers: the identifiers written in the text, in order
    extract_pc,          \* extract_identifiers: whether the text has been searched
    production_result,   \* what extract_identifiers of the production version returned
    nodriver_results,    \* what extract_identifiers of the nodriver version returned
    validator_input,     \* validators: the string a validator is called with
    validator_called,    \* validators: the validator that was called
    validator_outcome,   \* validators: what the call returned, or the exception it raised
    search_sections,     \* search_in_priority_areas: the texts of the priority sections, in order
    search_page,         \* search_in_priority_areas: the text of the full page
    search_pc,           \* search_in_priority_areas: whether it has returned
    search_result,       \* search_in_priority_areas: the identifiers returned
    search_consulted,    \* search_in_priority_areas: the texts extract_identifiers was called with, in order
    batch_urls,          \* process_batch_background: len(urls)
    batch_workers,       \* process_batch_background: concurrent_workers
    batch_proxy_list,    \* process_batch_background: proxy_manager.proxy_list (empty without a proxy manager)
    batch_pc,            \* process_batch_background: before or after scraper.start() and the pre-assignment
    slot_proxies,        \* process_batch_background: worker_proxies, by worker_id
    permits,             \* process_batch_background: free permits of the semaphore
    context_proxy,       \* PlaywrightScraper: the proxy option the pooled contexts were created with
    tasks,               \* process_url_with_semaphore, by index: state, worker_id, proxy_used and the egress of each page fetch
    task_results,        \* state.results: the ExtractionResult of each completed URL
    run_urls,            \* nodriver WorkerPool.run: len(urls)
    pool_max_workers,    \* nodriver WorkerPool: max_workers
    run_pc,              \* nodriver WorkerPool.run: how far run has got
    url_queue,           \* nodriver WorkerPool: the URLs in self.queue, each by its position in urls
    unfinished_tasks,    \* nodriver WorkerPool: items of self.queue not yet marked task_done
    workers,             \* nodriver WorkerPool: each worker task, its position and the URL it holds
    pool_results,        \* nodriver WorkerPool: self.results
    gate_max_workers,    \* app WorkerPool: self.max_workers
    semaphores,          \* app WorkerPool: the free permits of every asyncio.Semaphore created, in order of creation
    gate_semaphore,      \* app WorkerPool: self.semaphore, by its position in semaphores
    gate_tasks,          \* app WorkerPool: each submitted task, how far it has got and the semaphore it entered
    last_set             \* app WorkerPool: the last set_max_workers call, its argument, what was in force before it, and whether it raised

distributeVars == << loaded_proxies, num_workers, proxies_per_worker, proxy_managers >>
assignVars == << request_proxies, assign_pc, worker_proxies, url_runs >>
progressVars == << now, start_time, batch_duration, progress >>
submitVars == << body_urls, body_workers, submit_pc, status_code, batch_store, background_tasks, fetched >>
pageVars == << page_caller, navigation_timeout, page_load_timeout, loaded_after, idle_after, page_pc, page_result, classified >>
limiterVars == << max_requests, window_seconds, requests, lock_holder, lock_waiters, acquire_pc, sleep_left >>
extractVars == << page_text, extract_pc, production_result, nodriver_results >>
validatorVars == << validator_input, validator_called, validator_outcome >>
searchVars == << search_sections, search_page, search_pc, search_result, search_consulted >>
slotVars == << batch_urls, batch_workers, batch_proxy_list, batch_pc, slot_proxies, permits, context_proxy, tasks, task_results >>
poolVars == << run_urls, pool_max_workers, run_pc, url_queue, unfinished_tasks, workers, pool_results >>
gateVars == << gate_max_workers, semaphores, gate_semaphore, gate_tasks, last_set >>
moreVars == << distributeVars, assignVars, progressVars, submitVars, pageVars, limiterVars, extractVars, validatorVars, searchVars, slotVars, poolVars, gateVars >>

DistributeIdle ==
    /\ loaded_proxies = <<>>
    /\ num_workers = 0
    /\ proxies_per_worker = 0
    /\ proxy_managers = <<>>

AssignIdle ==
    /\ request_proxies = <<>>
    /\ assign_pc = "submitted"
    /\ worker_proxies = <<>>
    /\ url_runs = <<>>

ProgressIdle ==
    /\ now = 0
    /\ start_time = 0
    /\ batch_duration = -1
    /\ progress = <<>>

SubmitIdle ==
    /\ body_urls = <<>>
    /\ body_workers = 0
    /\ submit_pc = "idle"
    /\ status_code = 0
    /\ batch_store = 0
    /\ background_tasks = 0
    /\ fetched = 0

PageIdle ==
    /\ page_caller = "none"
    /\ navigation_timeout = 0
    /\ page_load_timeout = 0
    /\ loaded_after = 0
    /\ idle_after = 0
    /\ page_pc = "idle"
    /\ page_result = "none"
    /\ classified = "not asked"

LimiterIdle ==
    /\ max_requests = 0
    /\ window_seconds = 0
    /\ requests = <<>>
    /\ lock_holder = 0
    /\ lock_waiters = <<>>
    /\ acquire_pc = <<>>
    /\ sleep_left = <<>>

ExtractIdle ==
    /\ page_text = <<>>
    /\ extract_pc = "idle"
    /\ production_result = <<>>
    /\ nodriver_results = <<>>

ValidatorIdle ==
    /\ validator_input = <<>>
    /\ validator_called = "none"
    /\ validator_outcome = "none"

SearchIdle ==
    /\ search_sections = <<>>
    /\ search_page = <<>>
    /\ search_pc = "idle"
    /\ search_result = <<>>
    /\ search_consulted = <<>>

SlotIdle ==
    /\ batch_urls = 0
    /\ batch_workers = 0
    /\ batch_proxy_list = <<>>
    /\ batch_pc = "idle"
    /\ slot_proxies = <<>>
    /\ permits = 0
    /\ context_proxy = "None"
    /\ tasks = <<>>
    /\ task_results = <<>>

PoolIdle ==
    /\ run_urls = 0
    /\ pool_max_workers = 0
    /\ run_pc = "idle"
    /\ url_queue = <<>>
    /\ unfinished_tasks = 0
    /\ workers = <<>>
    /\ pool_results = <<>>

GateIdle ==
    /\ gate_max_workers = 0
    /\ semaphores = <<>>
    /\ gate_semaphore = 0
    /\ gate_tasks = <<>>
    /\ last_set = <<>>

DistributeAlone ==
    /\ AssignIdle
    /\ ProgressIdle
    /\ SubmitIdle
    /\ PageIdle
    /\ LimiterIdle
    /\ ExtractIdle
    /\ ValidatorIdle
    /\ SearchIdle
    /\ SlotIdle
    /\ PoolIdle
    /\ GateIdle

AssignAlone ==
    /\ DistributeIdle
    /\ ProgressIdle
    /\ SubmitIdle
    /\ PageIdle
    /\ LimiterIdle
    /\ ExtractIdle
    /\ ValidatorIdle
    /\ SearchIdle
    /\ SlotIdle
    /\ PoolIdle
    /\ GateIdle

ProgressAlone ==
    /\ DistributeIdle
    /\ AssignIdle
    /\ SubmitIdle
    /\ PageIdle
    /\ LimiterIdle
    /\ ExtractIdle
    /\ ValidatorIdle
    /\ SearchIdle
    /\ SlotIdle
    /\ PoolIdle
    /\ GateIdle

SubmitAlone ==
    /\ DistributeIdle
    /\ AssignIdle
    /\ ProgressIdle
    /\ PageIdle
    /\ LimiterIdle
    /\ ExtractIdle
    /\ ValidatorIdle
    /\ SearchIdle
    /\ SlotIdle
    /\ PoolIdle
    /\ GateIdle

PageAlone ==
    /\ DistributeIdle
    /\ AssignIdle
    /\ ProgressIdle
    /\ SubmitIdle
    /\ LimiterIdle
    /\ ExtractIdle
    /\ ValidatorIdle
    /\ SearchIdle
    /\ SlotIdle
    /\ PoolIdle
    /\ GateIdle

LimiterAlone ==
    /\ DistributeIdle
    /\ AssignIdle
    /\ ProgressIdle
    /\ SubmitIdle
    /\ PageIdle
    /\ ExtractIdle
    /\ ValidatorIdle
    /\ SearchIdle
    /\ SlotIdle
    /\ PoolIdle
    /\ GateIdle

ExtractAlone ==
    /\ DistributeIdle
    /\ AssignIdle
    /\ ProgressIdle
    /\ SubmitIdle
    /\ PageIdle
    /\ LimiterIdle
    /\ ValidatorIdle
    /\ SearchIdle
    /\ SlotIdle
    /\ PoolIdle
    /\ GateIdle

ValidatorAlone ==
    /\ DistributeIdle
    /\ AssignIdle
    /\ ProgressIdle
    /\ SubmitIdle
    /\ PageIdle
    /\ LimiterIdle
    /\ ExtractIdle
    /\ SearchIdle
    /\ SlotIdle
    /\ PoolIdle
    /\ GateIdle

SearchAlone ==
    /\ DistributeIdle
    /\ AssignIdle
    /\ ProgressIdle
    /\ SubmitIdle
    /\ PageIdle
    /\ LimiterIdle
    /\ ExtractIdle
    /\ ValidatorIdle
    /\ SlotIdle
    /\ PoolIdle
    /\ GateIdle

SlotAlone ==
    /\ DistributeIdle
    /\ AssignIdle
    /\ ProgressIdle
    /\ SubmitIdle
    /\ PageIdle
    /\ LimiterIdle
    /\ ExtractIdle
    /\ ValidatorIdle
    /\ SearchIdle
    /\ PoolIdle
    /\ GateIdle

PoolAlone ==
    /\ DistributeIdle
    /\ AssignIdle
    /\ ProgressIdle
    /\ SubmitIdle
    /\ PageIdle
    /\ LimiterIdle
    /\ ExtractIdle
    /\ ValidatorIdle
    /\ SearchIdle
    /\ SlotIdle
    /\ GateIdle

GateAlone ==
    /\ DistributeIdle
    /\ AssignIdle
    /\ ProgressIdle
    /\ SubmitIdle
    /\ PageIdle
    /\ LimiterIdle
    /\ ExtractIdle
    /\ ValidatorIdle
    /\ SearchIdle
    /\ SlotIdle
    /\ PoolIdle

MoreIdle ==
    /\ DistributeIdle
    /\ AssignIdle
    /\ ProgressIdle
    /\ SubmitIdle
    /\ PageIdle
    /\ LimiterIdle
    /\ ExtractIdle
    /\ ValidatorIdle
    /\ SearchIdle
    /\ SlotIdle
    /\ PoolIdle
    /\ GateIdle

\* ------------------------------------------- end of further components: state

classifierVars == << exception, retry >>
legalVars == << home_page, legal_page, legal_log, legal_return, extraction >>
nodriverVars == << nd_pc, nd_headless, nd_retry, nd_calls, nd_path, nd_links, nd_link,
                   nd_visited, nd_identifiers, nd_status >>
proxyVars == << settings_proxy_list, proxy_rotation_enabled, proxy_list, shares_settings,
                current_index, enabled, given, returned, changed, removed >>

scraperVars == << held, attempt, failure, outcome, legalNav, context_pool,
                  context_pool_lock, pages, navs, created >>
batchVars == << completed, success, failed, in_progress, results >>

\* What no step of a batch changes: its parameters, and the state of the
\* components modelled on their own below.
paramVars == << total_urls, concurrent_workers, pool_size, request_max_retries,
                classifierVars, legalVars, nodriverVars, proxyVars, moreVars >>

\* The state of a batch and of its scraper.
batchState == << total_urls, concurrent_workers, pool_size, request_max_retries,
                 bgpc, semaphore, pc, scraperVars, batchVars >>

vars == << batchState, classifierVars, legalVars, nodriverVars, proxyVars, moreVars >>

\* ------------------------------------------------ further components: frames
\* What the steps of one component leave alone.
distributeOthers == << batchState, classifierVars, legalVars, nodriverVars, proxyVars,
                       assignVars, progressVars, submitVars, pageVars, limiterVars, extractVars, validatorVars, searchVars, slotVars, poolVars, gateVars >>
assignOthers == << batchState, classifierVars, legalVars, nodriverVars, proxyVars,
                   distributeVars, progressVars, submitVars, pageVars, limiterVars, extractVars, validatorVars, searchVars, slotVars, poolVars, gateVars >>
progressOthers == << classifierVars, legalVars, nodriverVars, proxyVars, distributeVars,
                     assignVars, submitVars, pageVars, limiterVars, extractVars, validatorVars, searchVars, slotVars, poolVars, gateVars >>
submitOthers == << batchState, classifierVars, legalVars, nodriverVars, proxyVars,
                   distributeVars, assignVars, progressVars, pageVars, limiterVars, extractVars, validatorVars, searchVars, slotVars, poolVars, gateVars >>
pageOthers == << batchState, classifierVars, legalVars, nodriverVars, proxyVars,
                 distributeVars, assignVars, progressVars, submitVars, limiterVars, extractVars, validatorVars, searchVars, slotVars, poolVars, gateVars >>
limiterOthers == << batchState, classifierVars, legalVars, nodriverVars, proxyVars,
                    distributeVars, assignVars, progressVars, submitVars, pageVars, extractVars, validatorVars, searchVars, slotVars, poolVars, gateVars >>
extractOthers == << batchState, classifierVars, legalVars, nodriverVars, proxyVars,
                    distributeVars, assignVars, progressVars, submitVars, pageVars, limiterVars, validatorVars, searchVars, slotVars, poolVars, gateVars >>
validatorOthers == << batchState, classifierVars, legalVars, nodriverVars, proxyVars,
                      distributeVars, assignVars, progressVars, submitVars, pageVars, limiterVars, extractVars, searchVars, slotVars, poolVars, gateVars >>
searchOthers == << batchState, classifierVars, legalVars, nodriverVars, proxyVars,
                   distributeVars, assignVars, progressVars, submitVars, pageVars, limiterVars, extractVars, validatorVars, slotVars, poolVars, gateVars >>
slotOthers == << batchState, classifierVars, legalVars, nodriverVars, proxyVars,
                 distributeVars, assignVars, progressVars, submitVars, pageVars, limiterVars, extractVars, validatorVars, searchVars, poolVars, gateVars >>
poolOthers == << batchState, classifierVars, legalVars, nodriverVars, proxyVars,
                 distributeVars, assignVars, progressVars, submitVars, pageVars, limiterVars, extractVars, validatorVars, searchVars, slotVars, gateVars >>
gateOthers == << batchState, classifierVars, legalVars, nodriverVars, proxyVars,
                 distributeVars, assignVars, progressVars, submitVars, pageVars, limiterVars, extractVars, validatorVars, searchVars, slotVars, poolVars >>
\* ------------------------------------------ end of further components: frames

Unlocked == -1
MaxContexts == IF MaxPoolSize > MaxWorkers THEN MaxPoolSize ELSE MaxWorkers
Contexts == 1 .. MaxContexts
Urls == 0 .. (total_urls - 1)
AllUrls == 0 .. (MaxUrls - 1)

\* ----------------------------------------------------------- pure helpers

\* should_retry_exception: False when the lower-cased message contains one of
\* the permanent fragments, True otherwise.
should_retry_exceptionAlways(e) == TRUE
should_retry_exception(e) ==
    ~ \E k \in 1 .. Len(e) : e[k] \in permanent_errors

\* stop_after_attempt(settings.max_retries): stop once the attempt number
\* reaches max_retries.
stop_after_attemptOffByOne(attempt_number) == attempt_number >= max_retries + 1
stop_after_attempt(attempt_number) == attempt_number >= max_retries

NoFailure == <<>>

\* reraise=True: when the wrapper gives up, the exception of the last attempt
\* is raised as it is (not wrapped in a RetryError).
RaisedRetryError(last) == <<"retryerror[", "future", "]">>
Raised(last) == last

\* worker_id = index % concurrent_workers
WorkerId(index) == index % concurrent_workers

\* The counters of BatchState after a completion on the normal path.
CountersOnResultNoFail(c, found) ==
    [ completed |-> c.completed + 1,
      success   |-> IF found THEN c.success + 1 ELSE c.success,
      failed    |-> c.failed ]
CountersOnResult(c, found) ==
    [ completed |-> c.completed + 1,
      success   |-> IF found THEN c.success + 1 ELSE c.success,
      failed    |-> IF found THEN c.failed ELSE c.failed + 1 ]

\* The counters of BatchState after a completion on the exception path.
CountersOnErrorUncounted(c) ==
    [ completed |-> c.completed,
      success   |-> c.success,
      failed    |-> c.failed + 1 ]
CountersOnError(c) ==
    [ completed |-> c.completed + 1,
      success   |-> c.success,
      failed    |-> c.failed + 1 ]

Counters == [ completed |-> completed, success |-> success, failed |-> failed ]

\* ExtractionResult on the normal path: success / no_data.
ResultRecord(index, found) ==
    [ url       |-> index,
      status    |-> IF found THEN "success" ELSE "no_data",
      error     |-> IF found THEN <<>> ELSE <<"no valid identifiers found">>,
      worker_id |-> WorkerId(index) ]

\* ExtractionResult on the exception path.
ErrorRecord(index, e) ==
    [ url |-> index, status |-> "error", error |-> e, worker_id |-> WorkerId(index) ]

\* ----------------------------------------------------------------- Init
\* The batch as process_batch_background finds it: BatchState as built by
\* extract_batch_urls, nothing started yet.
BatchInit ==
    /\ total_urls \in 1 .. MaxUrls
    /\ concurrent_workers \in 1 .. MaxWorkers
    /\ pool_size \in 1 .. MaxPoolSize
    /\ bgpc = "start"
    /\ semaphore = concurrent_workers
    /\ pc = [i \in AllUrls |-> "idle"]
    /\ held = [i \in AllUrls |-> NoContext]
    /\ attempt = [i \in AllUrls |-> 0]
    /\ failure = [i \in AllUrls |-> NoFailure]
    /\ outcome = [i \in AllUrls |-> "none"]
    /\ legalNav = [i \in AllUrls |-> 0]
    /\ context_pool = <<>>
    /\ context_pool_lock = Unlocked
    /\ pages = [x \in Contexts |-> 0]
    /\ navs = [x \in Contexts |-> 0]
    /\ created = 0
    /\ completed = 0
    /\ success = 0
    /\ failed = 0
    /\ in_progress = TRUE
    /\ results = <<>>

\* Components that take no part in the run at hand stay as they are built.
ClassifierIdle ==
    /\ exception = [kind |-> "none", message |-> NoFailure]
    /\ retry = "pending"

LegalIdle ==
    /\ home_page = [state |-> "idle", identifiers |-> {}]
    /\ legal_page = [k \in 1 .. MAX_LEGAL_PAGES_TO_CHECK |-> [state |-> "idle", identifiers |-> {}]]
    /\ legal_log = [k \in 1 .. MAX_LEGAL_PAGES_TO_CHECK |-> NoFailure]
    /\ legal_return = [kind |-> "pending", identifiers |-> {}]
    /\ extraction = [status |-> "none", success |-> FALSE, identifiers |-> {}, error |-> <<>>]

NodriverIdle ==
    /\ nd_pc = "idle"
    /\ nd_headless = TRUE
    /\ nd_retry = TRUE
    /\ nd_calls = 0
    /\ nd_path = 0
    /\ nd_links = 0
    /\ nd_link = 0
    /\ nd_visited = 0
    /\ nd_identifiers = FALSE
    /\ nd_status = "error"

ProxyIdle ==
    /\ settings_proxy_list = <<>>
    /\ proxy_rotation_enabled = TRUE
    /\ proxy_list = <<>>
    /\ shares_settings = TRUE
    /\ current_index = 0
    /\ enabled = FALSE
    /\ given = [is_none |-> TRUE, list |-> <<>>]
    /\ returned = <<>>
    /\ changed = FALSE
    /\ removed = {}

\* A batch submitted without a retry override: the field keeps its default.
Init ==
    /\ BatchInit
    /\ request_max_retries = max_retries_default
    /\ ClassifierIdle
    /\ LegalIdle
    /\ NodriverIdle
    /\ ProxyIdle
    /\ MoreIdle



\* --------------------------------------------------- process_batch_background

\* scraper = PlaywrightScraper(); await scraper.start() succeeds: the pool is
\* pre-filled with pool_size fresh contexts, then one task per URL is created
\* and handed to asyncio.gather (no suspension point in between).
StartScraper ==
    /\ bgpc = "start"
    /\ bgpc' = "gather"
    /\ context_pool' = [k \in 1 .. pool_size |-> k]
    /\ created' = pool_size
    /\ pc' = [i \in AllUrls |-> IF i \in Urls THEN "pending" ELSE "idle"]
    /\ UNCHANGED << paramVars, semaphore, held, attempt, failure, outcome, legalNav, context_pool_lock, pages, navs, batchVars >>

\* await scraper.start() raises (the browser cannot be launched): the call is
\* made before the try block, so the exception leaves the background task.
StartScraperFails ==
    /\ bgpc = "start"
    /\ bgpc' = "crashed"
    /\ UNCHANGED << paramVars, semaphore, pc, scraperVars, batchVars >>

\* asyncio.Semaphore.acquire returns at once while a permit is free.
CanAcquireUnbounded == TRUE
CanAcquire == semaphore > 0

\* async with semaphore: tasks reach the gate in list order and waiters are
\* served first-in first-out.  The admitted task calls scrape_url, whose first
\* attempt starts.
Admit(i) ==
    /\ pc[i] = "pending"
    /\ \A j \in Urls : j < i => pc[j] # "pending"
    /\ CanAcquire
    /\ semaphore' = semaphore - 1
    /\ attempt' = [attempt EXCEPT ![i] = 1]
    /\ pc' = [pc EXCEPT ![i] = "getctx"]
    /\ UNCHANGED << paramVars, bgpc, held, failure, outcome, legalNav,
                    context_pool, context_pool_lock, pages, navs, created, batchVars >>

\* asyncio.gather(*tasks) returns once every task has returned.
GatherFirstCompleted == \E i \in Urls : pc[i] = "done"
GatherComplete == \A i \in Urls : pc[i] = "done"

\* gather returned: state.in_progress = False, then the finally block awaits
\* scraper.close().
MarkComplete ==
    /\ bgpc = "gather"
    /\ GatherComplete
    /\ in_progress' = FALSE
    /\ bgpc' = "cleanup"
    /\ UNCHANGED << paramVars, semaphore, pc, scraperVars, completed, success,
                    failed, results >>

\* scraper.close(): every pooled context is closed and the pool cleared.
CloseScraper ==
    /\ bgpc = "cleanup"
    /\ bgpc' = "done"
    /\ context_pool' = <<>>
    /\ UNCHANGED << paramVars, semaphore, pc, held, attempt, failure, outcome,
                    legalNav, context_pool_lock, pages, navs, created,
                    batchVars >>

\* ------------------------------------------------------------ context pool

\* context_pool.pop(0) leaves the rest of the list.
PopContextKeep(pool) == pool
PopContext(pool) == Tail(pool)

\* page = await context.new_page(), then _scrape_single_page starts the
\* homepage navigation (page.goto) on that page.
OpenHomepage(i, context) ==
    /\ held' = [held EXCEPT ![i] = context]
    /\ pages' = [pages EXCEPT ![context] = @ + 1]
    /\ navs' = [navs EXCEPT ![context] = @ + 1]
    /\ pc' = [pc EXCEPT ![i] = "home"]

\* An attempt of scrape_url starts (after the backoff sleep when it is a
\* retry).  _get_context_from_pool: under the pool lock, pop the front
\* context; with an empty pool, await the creation of a fresh context while
\* holding the lock.
GetContext(i) ==
    /\ pc[i] = "getctx"
    /\ context_pool_lock = Unlocked
    /\ IF context_pool # <<>>
       THEN /\ context_pool' = PopContext(context_pool)
            /\ OpenHomepage(i, Head(context_pool))
            /\ UNCHANGED context_pool_lock
       ELSE /\ context_pool_lock' = i
            /\ pc' = [pc EXCEPT ![i] = "creating"]
            /\ UNCHANGED << held, context_pool, pages, navs >>
    /\ UNCHANGED << paramVars, bgpc, semaphore, attempt, failure, outcome, legalNav, created, batchVars >>

\* _create_context_for_pool returned: the lock is released and the fresh
\* context goes to the caller.
CreateContext(i) ==
    /\ pc[i] = "creating"
    /\ created < MaxContexts
    /\ created' = created + 1
    /\ context_pool_lock' = Unlocked
    /\ OpenHomepage(i, created + 1)
    /\ UNCHANGED << paramVars, bgpc, semaphore, attempt, failure, outcome, legalNav, context_pool, batchVars >>

\* self.context_pool.append(context)
ReturnedToPoolDropped(pool, context) == pool
ReturnedToPool(pool, context) == Append(pool, context)

\* page.close() on every page of the context.
PagesAfterCloseNone(n) == n
PagesAfterClose(n) == 0

\* ---------------------------------------------------------------- scrape_url

\* The homepage fetch yields identifiers: scrape_url returns them at once
\* (through the finally block).
HomepageFound(i) ==
    /\ pc[i] = "home"
    /\ navs' = [navs EXCEPT ![held[i]] = @ - 1]
    /\ outcome' = [outcome EXCEPT ![i] = "found"]
    /\ pc' = [pc EXCEPT ![i] = "return"]
    /\ UNCHANGED << paramVars, bgpc, semaphore, held, attempt, failure, legalNav, context_pool, context_pool_lock, pages, created,
                    batchVars >>

\* The homepage fetch yields nothing: the legal pages
\* LEGAL_PATHS[:MAX_LEGAL_PAGES_TO_CHECK] are gathered, every scrape_legal_page
\* starting its page.goto on the same page before any of them can complete.
HomepageEmpty(i) ==
    /\ pc[i] = "home"
    /\ navs' = [navs EXCEPT ![held[i]] = @ - 1 + MAX_LEGAL_PAGES_TO_CHECK]
    /\ legalNav' = [legalNav EXCEPT ![i] = MAX_LEGAL_PAGES_TO_CHECK]
    /\ pc' = [pc EXCEPT ![i] = "legal"]
    /\ UNCHANGED << paramVars, bgpc, semaphore, held, attempt, failure, outcome,
                    context_pool, context_pool_lock, pages, created, batchVars >>

\* The homepage fetch raises e: the exception leaves the try block through
\* the finally block.
HomepageFails(i, e) ==
    /\ pc[i] = "home"
    /\ navs' = [navs EXCEPT ![held[i]] = @ - 1]
    /\ failure' = [failure EXCEPT ![i] = e]
    /\ outcome' = [outcome EXCEPT ![i] = "raise"]
    /\ pc' = [pc EXCEPT ![i] = "return"]
    /\ UNCHANGED << paramVars, bgpc, semaphore, held, attempt, legalNav,
                    context_pool, context_pool_lock, pages, created, batchVars >>

\* asyncio.gather returns once every scrape_legal_page has finished, each with
\* identifiers, with none, or with an exception that it turns into the empty
\* result.  firstFound is the first page of the list whose result holds an
\* identifier, 0 when there is none: scrape_url returns that result, else the
\* all-empty set.
LegalPagesDone(i, firstFound) ==
    /\ pc[i] = "legal"
    /\ navs' = [navs EXCEPT ![held[i]] = @ - legalNav[i]]
    /\ legalNav' = [legalNav EXCEPT ![i] = 0]
    /\ outcome' = [outcome EXCEPT ![i] = IF firstFound > 0 THEN "found" ELSE "empty"]
    /\ pc' = [pc EXCEPT ![i] = "return"]
    /\ UNCHANGED << paramVars, bgpc, semaphore, held, attempt, failure, context_pool,
                    context_pool_lock, pages, created, batchVars >>

\* finally: _return_context_to_pool takes the pool lock and starts closing the
\* pages of the context.
ReturnContext(i) ==
    /\ pc[i] = "return"
    /\ context_pool_lock = Unlocked
    /\ context_pool_lock' = i
    /\ pc' = [pc EXCEPT ![i] = "closing"]
    /\ UNCHANGED << paramVars, bgpc, semaphore, held, attempt, failure, outcome,
                    legalNav, context_pool, pages, navs, created,
                    batchVars >>

\* --------------------------------------------- process_url_with_semaphore

\* The task returns: the permit is released and the call's retry state is gone.
TaskReturns(i) ==
    /\ semaphore' = semaphore + 1
    /\ attempt' = [attempt EXCEPT ![i] = 0]
    /\ failure' = [failure EXCEPT ![i] = NoFailure]
    /\ pc' = [pc EXCEPT ![i] = "done"]

\* scrape_url returned identifiers (found) or the all-empty set: the result is
\* built, the counters updated and the result appended.
Complete(i, found) ==
    /\ LET c == CountersOnResult(Counters, found) IN
         /\ completed' = c.completed
         /\ success' = c.success
         /\ failed' = c.failed
    /\ results' = Append(results, ResultRecord(i, found))
    /\ TaskReturns(i)
    /\ UNCHANGED << bgpc, in_progress >>

\* A handler that lets the exception leave the task: gather re-raises it in
\* process_batch_background.
OnExceptionPropagate(i, e) ==
    /\ TaskReturns(i)
    /\ bgpc' = "crashed"
    /\ UNCHANGED << completed, success, failed, results, in_progress >>

\* except Exception as e: the failure becomes the URL's error result.
OnException(i, e) ==
    /\ LET c == CountersOnError(Counters) IN
         /\ completed' = c.completed
         /\ success' = c.success
         /\ failed' = c.failed
    /\ results' = Append(results, ErrorRecord(i, e))
    /\ TaskReturns(i)
    /\ UNCHANGED << bgpc, in_progress >>

\* The retry wrapper after a failed attempt: when the failure is retryable
\* and attempts are left, the retry state is prepared for the next attempt
\* (outcome dropped, attempt_number incremented) and the wrapper sleeps for
\* wait_exponential; otherwise the failure is re-raised into the except block.
AfterFailedAttempt(i) ==
    IF should_retry_exception(failure[i]) /\ ~ stop_after_attempt(attempt[i])
    THEN /\ attempt' = [attempt EXCEPT ![i] = @ + 1]
         /\ failure' = [failure EXCEPT ![i] = NoFailure]
         /\ pc' = [pc EXCEPT ![i] = "getctx"]
         /\ UNCHANGED << bgpc, semaphore, batchVars >>
    ELSE OnException(i, Raised(failure[i]))

\* The pages are closed, the context goes to the back of the pool and the lock
\* is released.  Then, without a suspension point, a returned value reaches
\* process_url_with_semaphore and a raised exception the retry wrapper.
FinishReturn(i) ==
    /\ pc[i] = "closing"
    /\ pages' = [pages EXCEPT ![held[i]] = PagesAfterClose(@)]
    /\ context_pool' = ReturnedToPool(context_pool, held[i])
    /\ context_pool_lock' = Unlocked
    /\ held' = [held EXCEPT ![i] = NoContext]
    /\ outcome' = [outcome EXCEPT ![i] = "none"]
    /\ CASE outcome[i] = "found" -> Complete(i, TRUE)
         [] outcome[i] = "empty" -> Complete(i, FALSE)
         [] OTHER -> AfterFailedAttempt(i)
    /\ UNCHANGED << paramVars, legalNav, navs, created >>

Next ==
    \/ StartScraper
    \/ StartScraperFails
    \/ MarkComplete
    \/ CloseScraper
    \/ \E i \in Urls : Admit(i)
    \/ \E i \in Urls : GetContext(i)
    \/ \E i \in Urls : CreateContext(i)
    \/ \E i \in Urls : HomepageFound(i)
    \/ \E i \in Urls : HomepageEmpty(i)
    \/ \E i \in Urls, e \in FetchFailures : HomepageFails(i, e)
    \/ \E i \in Urls, firstFound \in 0 .. MAX_LEGAL_PAGES_TO_CHECK :
          LegalPagesDone(i, firstFound)
    \/ \E i \in Urls : ReturnContext(i)
    \/ \E i \in Urls : FinishReturn(i)

Spec == Init /\ [][Next]_vars


\* --------------------------------------------------- should_retry_exception
\* The classifier on its own: an exception is raised by page.goto, the retry
\* wrapper hands it to should_retry_exception and gets the verdict.

MaxText == 2          \* longest text (in fragments) that follows the head of a message

\* What Playwright puts at the head of the message, by kind of failure
\* (lower-cased, as should_retry_exception reads it).
HeadOf ==
    [ timeout      |-> "timeout 60000ms exceeded",
      transient    |-> "net::err_aborted",
      unclassified |-> "target page, context or browser has been closed",
      dns          |-> "net::err_name_not_resolved",
      refused      |-> "net::err_connection_refused",
      closed       |-> "net::err_connection_closed",
      certificate  |-> "net::err_cert_" ]
Kinds == DOMAIN HeadOf
PermanentKinds == {"dns", "refused", "closed", "certificate"}

\* The text after the head: the call log with the URL being navigated to,
\* cut so that an occurrence of a permanent fragment is a fragment of its own.
TextFragments == {"navigating to https://", "example.fr/", "404", "dns", "not found"}
RECURSIVE TextsOfLen(_)
TextsOfLen(n) ==
    IF n = 0 THEN { <<>> }
    ELSE { Append(t, f) : t \in TextsOfLen(n - 1), f \in TextFragments }
Texts == UNION { TextsOfLen(n) : n \in 0 .. MaxText }

\* str(exception).lower()
MessageOf(kind, text) == << HeadOf[kind] >> \o text
Exceptions == { [kind |-> k, message |-> MessageOf(k, t)] : k \in Kinds, t \in Texts }

\* A parked batch: the smallest one, never started.
BatchIdle ==
    /\ BatchInit
    /\ total_urls = 1
    /\ concurrent_workers = 1
    /\ pool_size = 1
    /\ request_max_retries = max_retries_default

ClassifierInit ==
    /\ exception \in Exceptions
    /\ retry = "pending"
    /\ BatchIdle
    /\ LegalIdle
    /\ NodriverIdle
    /\ ProxyIdle
    /\ MoreIdle

\* retry_if_exception(should_retry_exception) evaluates the predicate.
Classify ==
    /\ retry = "pending"
    /\ retry' = IF should_retry_exception(exception.message) THEN "retry" ELSE "give_up"
    /\ UNCHANGED << exception, batchState, legalVars, nodriverVars, proxyVars, moreVars >>

\* Another fetch fails.
Raise(x) ==
    /\ retry # "pending"
    /\ exception' = x
    /\ retry' = "pending"
    /\ UNCHANGED << batchState, legalVars, nodriverVars, proxyVars, moreVars >>

ClassifierNext ==
    \/ Classify
    \/ \E x \in Exceptions : Raise(x)

ClassifierSpec == ClassifierInit /\ [][ClassifierNext]_vars


\* ------------------------------------------------ the per-batch retry override
\* A batch submitted with any max_retries the request model accepts
\* (ge=0, le=10).  extract_batch_urls hands urls, concurrent_workers and the
\* proxy manager to process_batch_background; the field goes nowhere.
OverrideInit ==
    /\ BatchInit
    /\ request_max_retries \in 0 .. max_retries_le
    /\ ClassifierIdle
    /\ LegalIdle
    /\ NodriverIdle
    /\ ProxyIdle
    /\ MoreIdle

OverrideSpec == OverrideInit /\ [][Next]_vars


\* ------------------------------------------ one attempt of scrape_url, page by page
\* The body of scrape_url between taking the context and the finally block,
\* with every page fetch as a step of its own, followed by the result that
\* process_url_with_semaphore builds from a returned value.  The identifiers a
\* page yields are the set of keys of the dictionary whose value is not None.

IdentifierKinds == {"siret", "siren", "tva"}
\* What a page can yield: nothing, one identifier, two, or all three.
IdentifierSets == { {}, {"siret"}, {"siren", "tva"}, IdentifierKinds }

\* any(identifiers.values())
all_values(ids) == ids = IdentifierKinds
any_values(ids) == ids # {}

Running == [state |-> "running", identifiers |-> {}]
Done(ids) == [state |-> "done", identifiers |-> ids]
Raising == [state |-> "raised", identifiers |-> {}]

LegalPages == 1 .. MAX_LEGAL_PAGES_TO_CHECK

\* scrape_legal_page's except clause: the all-None dictionary is returned.
OnLegalPageExceptionRaise(e) == Raising
OnLegalPageException(e) == Done({})

\* for result in results: if any(result.values()): return result
\* ... return the all-None dictionary
FirstWithIdentifiers(legal_results) ==
    IF \E k \in LegalPages : any_values(legal_results[k].identifiers)
    THEN LET first == CHOOSE k \in LegalPages :
                          /\ any_values(legal_results[k].identifiers)
                          /\ \A j \in 1 .. (k - 1) : ~ any_values(legal_results[j].identifiers)
         IN legal_results[first].identifiers
    ELSE {}

\* status_str = "success" if success else ("no_data" if not has_data else "error")
StatusStrErrorWhenEmpty(is_success, has_data) == IF is_success THEN "success" ELSE "error"
StatusStr(is_success, has_data) ==
    IF is_success THEN "success" ELSE IF ~ has_data THEN "no_data" ELSE "error"

\* The ExtractionResult of the normal path.
ExtractionResult(ids) ==
    LET is_success == any_values(ids)
        has_data == any_values(ids)
    IN [ status      |-> StatusStr(is_success, has_data),
         success     |-> is_success,
         identifiers |-> ids,
         error       |-> IF has_data THEN <<>> ELSE <<"no valid identifiers found">> ]

AttemptInit ==
    /\ home_page = Running
    /\ legal_page = [k \in LegalPages |-> [state |-> "idle", identifiers |-> {}]]
    /\ legal_log = [k \in LegalPages |-> NoFailure]
    /\ legal_return = [kind |-> "pending", identifiers |-> {}]
    /\ extraction = [status |-> "none", success |-> FALSE, identifiers |-> {}, error |-> <<>>]
    /\ BatchIdle
    /\ ClassifierIdle
    /\ NodriverIdle
    /\ ProxyIdle
    /\ MoreIdle

attemptOthers == << batchState, classifierVars, nodriverVars, proxyVars, moreVars >>

\* _scrape_single_page(page, url) returns ids for the homepage: with an
\* identifier scrape_url returns at once, with none it gathers the legal
\* pages, each task running up to its page.goto.
HomepageReturns(ids) ==
    /\ home_page = Running
    /\ home_page' = Done(ids)
    /\ IF any_values(ids)
       THEN /\ legal_return' = [kind |-> "return", identifiers |-> ids]
            /\ UNCHANGED legal_page
       ELSE /\ legal_page' = [k \in LegalPages |-> Running]
            /\ UNCHANGED legal_return
    /\ UNCHANGED << legal_log, extraction, attemptOthers >>

\* _scrape_single_page raises for the homepage: the exception leaves scrape_url.
HomepageRaises(e) ==
    /\ home_page = Running
    /\ home_page' = Raising
    /\ legal_return' = [kind |-> "raise", identifiers |-> {}]
    /\ UNCHANGED << legal_page, legal_log, extraction, attemptOthers >>

\* One gathered scrape_legal_page gets its page back with ids.
LegalPageReturns(k, ids) ==
    /\ legal_return.kind = "pending"
    /\ legal_page[k] = Running
    /\ legal_page' = [legal_page EXCEPT ![k] = Done(ids)]
    /\ UNCHANGED << home_page, legal_log, legal_return, extraction, attemptOthers >>

\* One gathered scrape_legal_page fails with e and handles it.
LegalPageFails(k, e) ==
    /\ legal_return.kind = "pending"
    /\ legal_page[k] = Running
    /\ legal_page' = [legal_page EXCEPT ![k] = OnLegalPageException(e)]
    /\ legal_log' = [legal_log EXCEPT ![k] = e]
    /\ UNCHANGED << home_page, legal_return, extraction, attemptOthers >>

\* asyncio.gather ends: with the exception of a task that raised, as soon as
\* there is one, else with all the results once every task has returned;
\* scrape_url returns the first result that holds an identifier.
GatherReturns ==
    /\ legal_return.kind = "pending"
    /\ home_page = Done({})
    /\ \/ \E k \in LegalPages : legal_page[k].state = "raised"
       \/ \A k \in LegalPages : legal_page[k].state = "done"
    /\ legal_return' =
          IF \E k \in LegalPages : legal_page[k].state = "raised"
          THEN [kind |-> "raise", identifiers |-> {}]
          ELSE [kind |-> "return", identifiers |-> FirstWithIdentifiers(legal_page)]
    /\ UNCHANGED << home_page, legal_page, legal_log, extraction, attemptOthers >>

\* process_url_with_semaphore builds the result from the returned identifiers.
BuildResult ==
    /\ legal_return.kind = "return"
    /\ extraction.status = "none"
    /\ extraction' = ExtractionResult(legal_return.identifiers)
    /\ UNCHANGED << home_page, legal_page, legal_log, legal_return, attemptOthers >>

AttemptNext ==
    \/ \E ids \in IdentifierSets : HomepageReturns(ids)
    \/ \E e \in FetchFailures : HomepageRaises(e)
    \/ \E k \in LegalPages, ids \in IdentifierSets : LegalPageReturns(k, ids)
    \/ \E k \in LegalPages, e \in FetchFailures : LegalPageFails(k, e)
    \/ GatherReturns
    \/ BuildResult

AttemptSpec == AttemptInit /\ [][AttemptNext]_vars


\* ------------------------------------------------------ nodriver scrape_site
\* scrape_site(url, worker_id, proxy, headless, retry_non_headless) of the
\* nodriver version, for one site.  The recursive call of the anti-bot
\* fallback replaces the running call: the outer call returns what the inner
\* one returns.

MaxFooterLinks == 8            \* most links find_legal_links returns
max_legal_pages_to_check == 7  \* CONFIG['max_legal_pages_to_check']
LEGAL_PATHS_len == 29          \* len(LEGAL_PATHS)

Min(a, b) == IF a < b THEN a ELSE b

\* len(LEGAL_PATHS[:CONFIG['max_legal_pages_to_check']])
LegalPathsToCheck == Min(LEGAL_PATHS_len, max_legal_pages_to_check)
\* len(footer_links[:CONFIG['max_legal_pages_to_check']])
FooterLinksToCheck(n) == Min(n, max_legal_pages_to_check)

\* if headless and retry_non_headless
ShouldFallbackNever(headless, retry_non_headless) == FALSE
ShouldFallback(headless, retry_non_headless) == headless /\ retry_non_headless

\* The worker calls scrape_site with CONFIG['headless'] and
\* CONFIG['fallback_to_non_headless']; the browser is starting on the homepage.
NodriverInit ==
    /\ nd_pc = "homepage"
    /\ nd_headless \in BOOLEAN
    /\ nd_retry \in BOOLEAN
    /\ nd_calls = 1
    /\ nd_path = 0
    /\ nd_links = 0
    /\ nd_link = 0
    /\ nd_visited = 0
    /\ nd_identifiers = FALSE
    /\ nd_status = "error"
    /\ BatchIdle
    /\ ClassifierIdle
    /\ LegalIdle
    /\ ProxyIdle
    /\ MoreIdle

nodriverOthers == << batchState, classifierVars, legalVars, proxyVars, moreVars >>

\* uc.start, browser.get or tab.get(base_url) raises: the except clauses set
\* the status (timeout for asyncio.TimeoutError, error otherwise).
NdRaises(status) ==
    /\ nd_pc \in {"homepage", "footer"}
    /\ nd_status' = status
    /\ nd_pc' = "returned"
    /\ UNCHANGED << nd_headless, nd_retry, nd_calls, nd_path, nd_links, nd_link,
                    nd_visited, nd_identifiers, nodriverOthers >>

\* detect_antibot(tab) is true: with the fallback left the browser is stopped
\* and scrape_site called again with headless=False, retry_non_headless=False;
\* otherwise the result is returned with status antibot.
AntibotDetected ==
    /\ nd_pc = "homepage"
    /\ IF ShouldFallback(nd_headless, nd_retry)
       THEN /\ nd_headless' = FALSE
            /\ nd_retry' = FALSE
            /\ nd_calls' = nd_calls + 1
            /\ UNCHANGED << nd_pc, nd_status >>
       ELSE /\ nd_status' = "antibot"
            /\ nd_pc' = "returned"
            /\ UNCHANGED << nd_headless, nd_retry, nd_calls >>
    /\ UNCHANGED << nd_path, nd_links, nd_link, nd_visited, nd_identifiers, nodriverOthers >>

\* No challenge on the homepage: its identifiers, if any, end the search.
HomepageChecked(found) ==
    /\ nd_pc = "homepage"
    /\ nd_identifiers' = found
    /\ nd_pc' = IF found THEN "finish" ELSE "paths"
    /\ UNCHANGED << nd_headless, nd_retry, nd_calls, nd_path, nd_links, nd_link,
                    nd_visited, nd_status, nodriverOthers >>

\* One turn of the loop over LEGAL_PATHS[:max_legal_pages_to_check]: tab.get
\* of the path, then the page fails (except: continue), is a 404 page
\* (continue), holds nothing, or holds identifiers (break).
VisitLegalPath(page) ==
    /\ nd_pc = "paths"
    /\ nd_path < LegalPathsToCheck
    /\ nd_path' = nd_path + 1
    /\ nd_visited' = nd_visited + 1
    /\ nd_identifiers' = (page = "found")
    /\ nd_pc' = IF page = "found" THEN "finish"
                ELSE IF nd_path + 1 = LegalPathsToCheck THEN "footer"
                ELSE "paths"
    /\ UNCHANGED << nd_headless, nd_retry, nd_calls, nd_links, nd_link, nd_status,
                    nodriverOthers >>

\* Nothing found on the paths: the homepage is fetched again and
\* find_legal_links returns n links.
FindLegalLinks(n) ==
    /\ nd_pc = "footer"
    /\ nd_links' = n
    /\ nd_pc' = IF FooterLinksToCheck(n) = 0 THEN "finish" ELSE "links"
    /\ UNCHANGED << nd_headless, nd_retry, nd_calls, nd_path, nd_link, nd_visited,
                    nd_identifiers, nd_status, nodriverOthers >>

\* One turn of the loop over footer_links[:max_legal_pages_to_check].
VisitFooterLink(page) ==
    /\ nd_pc = "links"
    /\ nd_link < FooterLinksToCheck(nd_links)
    /\ nd_link' = nd_link + 1
    /\ nd_visited' = nd_visited + 1
    /\ nd_identifiers' = (page = "found")
    /\ nd_pc' = IF page = "found" \/ nd_link + 1 = FooterLinksToCheck(nd_links)
                THEN "finish" ELSE "links"
    /\ UNCHANGED << nd_headless, nd_retry, nd_calls, nd_path, nd_links, nd_status,
                    nodriverOthers >>

\* result.status = 'success' if result.identifiers else 'no_data'
SetStatus ==
    /\ nd_pc = "finish"
    /\ nd_status' = IF nd_identifiers THEN "success" ELSE "no_data"
    /\ nd_pc' = "returned"
    /\ UNCHANGED << nd_headless, nd_retry, nd_calls, nd_path, nd_links, nd_link,
                    nd_visited, nd_identifiers, nodriverOthers >>

NodriverNext ==
    \/ \E status \in {"timeout", "error"} : NdRaises(status)
    \/ AntibotDetected
    \/ \E found \in BOOLEAN : HomepageChecked(found)
    \/ \E page \in {"fails", "not_found", "empty", "found"} : VisitLegalPath(page)
    \/ \E n \in 0 .. MaxFooterLinks : FindLegalLinks(n)
    \/ \E page \in {"fails", "empty", "found"} : VisitFooterLink(page)
    \/ SetStatus

NodriverSpec == NodriverInit /\ [][NodriverNext]_vars


\* ---------------------------------------------------------------- ProxyManager
\* One ProxyManager of app/scraper/proxy_manager.py (the production version
\* has the same methods), built under any settings and then driven by any
\* sequence of get_next_proxy, add_proxy and remove_proxy calls.

MaxProxies == 2       \* longest proxy list at construction (settings or argument)
MaxCalls == 3         \* get_next_proxy calls recorded before the list is touched

Proxies == {"http://p1:8080", "http://p2:8080"}
None == "None"

RECURSIVE ProxyListsOfLen(_)
ProxyListsOfLen(n) ==
    IF n = 0 THEN { <<>> }
    ELSE { Append(l, p) : l \in ProxyListsOfLen(n - 1), p \in Proxies }
ProxyLists == UNION { ProxyListsOfLen(n) : n \in 0 .. MaxProxies }

\* The proxy_list argument: None (the default) or a list.
Arguments ==
    { [is_none |-> TRUE, list |-> <<>>] } \cup { [is_none |-> FALSE, list |-> l] : l \in ProxyLists }

\* proxy_list or settings.proxy_list: None and the empty list both give way.
Falsy(arg) == arg.is_none \/ Len(arg.list) = 0
ProxyListOr(arg, configured) == IF Falsy(arg) THEN configured ELSE arg.list

\* proxy in self.proxy_list
Contains(l, p) == \E k \in 1 .. Len(l) : l[k] = p

\* list.remove(proxy): the first occurrence goes.
Remove(l, p) ==
    LET first == CHOOSE k \in 1 .. Len(l) : l[k] = p /\ \A j \in 1 .. (k - 1) : l[j] # p
    IN [k \in 1 .. (Len(l) - 1) |-> IF k < first THEN l[k] ELSE l[k + 1]]

\* (self.current_index + 1) % len(self.proxy_list)
NextIndexStuck(index, length) == index
NextIndex(index, length) == (index + 1) % length

\* ProxyManager.__init__ under the settings of the process.
ProxyInit ==
    /\ settings_proxy_list \in ProxyLists
    /\ proxy_rotation_enabled \in BOOLEAN
    /\ given \in Arguments
    /\ proxy_list = ProxyListOr(given, settings_proxy_list)
    /\ shares_settings = Falsy(given)
    /\ current_index = 0
    /\ enabled = (proxy_rotation_enabled /\ Len(proxy_list) > 0)
    /\ returned = <<>>
    /\ changed = FALSE
    /\ removed = {}
    /\ BatchIdle
    /\ ClassifierIdle
    /\ LegalIdle
    /\ NodriverIdle
    /\ MoreIdle

proxyOthers == << batchState, classifierVars, legalVars, nodriverVars, moreVars >>

\* What a call returns is put on record.
Record(value) == IF changed THEN << value >> ELSE Append(returned, value)

get_next_proxy ==
    /\ changed \/ Len(returned) < MaxCalls
    /\ IF ~ enabled \/ Len(proxy_list) = 0
       THEN /\ returned' = Record(None)
            /\ UNCHANGED current_index
       ELSE /\ returned' = Record(proxy_list[current_index + 1])
            /\ current_index' = NextIndex(current_index, Len(proxy_list))
    /\ UNCHANGED << settings_proxy_list, proxy_rotation_enabled, proxy_list,
                    shares_settings, enabled, given, changed, removed, proxyOthers >>

\* A list that is the settings' own list object changes with the manager's.
SettingsAfter(new_list) == IF shares_settings THEN new_list ELSE settings_proxy_list

add_proxy(proxy) ==
    /\ IF ~ Contains(proxy_list, proxy)
       THEN /\ proxy_list' = Append(proxy_list, proxy)
            /\ enabled' = TRUE
       ELSE UNCHANGED << proxy_list, enabled >>
    /\ settings_proxy_list' = SettingsAfter(proxy_list')
    /\ changed' = TRUE
    /\ returned' = <<>>
    /\ removed' = removed \ {proxy}
    /\ UNCHANGED << proxy_rotation_enabled, shares_settings, current_index, given,
                    proxyOthers >>

remove_proxy(proxy) ==
    /\ IF Contains(proxy_list, proxy)
       THEN /\ proxy_list' = Remove(proxy_list, proxy)
            /\ enabled' = (Len(proxy_list') > 0)
            /\ current_index' = IF current_index >= Len(proxy_list') THEN 0 ELSE current_index
       ELSE UNCHANGED << proxy_list, enabled, current_index >>
    /\ settings_proxy_list' = SettingsAfter(proxy_list')
    /\ changed' = TRUE
    /\ returned' = <<>>
    /\ removed' = IF Contains(proxy_list, proxy) THEN removed \cup {proxy} ELSE removed
    /\ UNCHANGED << proxy_rotation_enabled, shares_settings, given, proxyOthers >>

ProxyNext ==
    \/ get_next_proxy
    \/ \E proxy \in Proxies : add_proxy(proxy)
    \/ \E proxy \in Proxies : remove_proxy(proxy)

ProxySpec == ProxyInit /\ [][ProxyNext]_vars


\* ------------------------------------------- distribute_proxies_to_workers
\* distribute_proxies_to_workers of app/scraper/proxy_manager.py, called once
\* with any list, worker count and slice size under any settings; afterwards
\* the workers call get_next_proxy on their own managers in any order.

MaxDistWorkers == 2   \* largest num_workers
MaxPerWorker == 2     \* largest proxies_per_worker

\* worker_proxies of one worker: proxies_per_worker entries from start_idx on, wrapped.
WorkerProxiesFromStart(l, worker_id, per_worker) ==
    [i \in 1 .. per_worker |-> l[((i - 1) % Len(l)) + 1]]
WorkerProxies(l, worker_id, per_worker) ==
    LET start_idx == (worker_id * per_worker) % Len(l)
    IN [i \in 1 .. per_worker |-> l[((start_idx + (i - 1)) % Len(l)) + 1]]

\* ProxyManager(proxy_list=arg, worker_id=...) under the settings of the process.
NewManager(arg) ==
    LET l == ProxyListOr([is_none |-> FALSE, list |-> arg], settings_proxy_list)
    IN [proxy_list |-> l,
        current_index |-> 0,
        enabled |-> (proxy_rotation_enabled /\ Len(l) > 0),
        returned |-> <<>>]

\* The list of managers returned, worker 0 first.
Distributed(l, n, per_worker) ==
    IF Len(l) = 0
    THEN [w \in 1 .. n |-> NewManager(<<>>)]
    ELSE [w \in 1 .. n |-> NewManager(WorkerProxies(l, w - 1, per_worker))]

DistributeInit ==
    /\ settings_proxy_list \in ProxyListsOfLen(0) \cup ProxyListsOfLen(1)
    /\ proxy_rotation_enabled \in BOOLEAN
    /\ loaded_proxies \in ProxyLists
    /\ num_workers \in 1 .. MaxDistWorkers
    /\ proxies_per_worker \in 0 .. MaxPerWorker
    /\ proxy_managers = Distributed(loaded_proxies, num_workers, proxies_per_worker)
    /\ proxy_list = <<>>
    /\ shares_settings = TRUE
    /\ current_index = 0
    /\ enabled = FALSE
    /\ given = [is_none |-> TRUE, list |-> <<>>]
    /\ returned = <<>>
    /\ changed = FALSE
    /\ removed = {}
    /\ BatchIdle
    /\ ClassifierIdle
    /\ LegalIdle
    /\ NodriverIdle
    /\ DistributeAlone

\* get_next_proxy on the manager of worker w - 1.
WorkerGetNextProxy(w) ==
    LET m == proxy_managers[w] IN
    /\ Len(m.returned) < MaxCalls
    /\ proxy_managers' =
          [proxy_managers EXCEPT ![w] =
              IF ~ m.enabled \/ Len(m.proxy_list) = 0
              THEN [m EXCEPT !.returned = Append(m.returned, None)]
              ELSE [m EXCEPT !.returned = Append(m.returned, m.proxy_list[m.current_index + 1]),
                             !.current_index = NextIndex(m.current_index, Len(m.proxy_list))]]
    /\ UNCHANGED << loaded_proxies, num_workers, proxies_per_worker, distributeOthers >>

DistributeNext == \E w \in 1 .. num_workers : WorkerGetNextProxy(w)

DistributeSpec == DistributeInit /\ [][DistributeNext]_vars


\* ------------------------------------- process_batch_background: worker slots
\* The proxy of each worker slot as process_batch_background assigns it before
\* any URL is taken up, the slot and proxy each URL is processed under, and the
\* proxy every attempt of its scrape_url call is made with.  A batch here has
\* up to MaxAssignUrls URLs and MaxSlots workers; its fetches are not followed.

MaxAssignUrls == 4    \* most URLs of the batch
MaxSlots == 4         \* largest concurrent_workers

\* proxy_manager.proxy_list[worker_id % len(proxy_manager.proxy_list)]
AssignedProxyFirst(l, worker_id) == l[1]
AssignedProxy(l, worker_id) == l[(worker_id % Len(l)) + 1]

\* nodriver WorkerPool.get_proxy_for_worker
get_proxy_for_worker(l, use_proxy, worker_id) ==
    IF Len(l) = 0 \/ ~ use_proxy THEN None ELSE l[(worker_id % Len(l)) + 1]

\* worker_proxies.get(worker_id) if worker_proxies else None
ProxyUsed(worker_id) ==
    IF DOMAIN worker_proxies = {} THEN None
    ELSE IF worker_id \in DOMAIN worker_proxies THEN worker_proxies[worker_id] ELSE None

\* The scraper and the tasks of a batch whose fetches are not followed.
ScraperParked ==
    /\ bgpc = "start"
    /\ semaphore = concurrent_workers
    /\ pc = [i \in AllUrls |-> "idle"]
    /\ held = [i \in AllUrls |-> NoContext]
    /\ attempt = [i \in AllUrls |-> 0]
    /\ failure = [i \in AllUrls |-> NoFailure]
    /\ outcome = [i \in AllUrls |-> "none"]
    /\ legalNav = [i \in AllUrls |-> 0]
    /\ context_pool = <<>>
    /\ context_pool_lock = Unlocked
    /\ pages = [x \in Contexts |-> 0]
    /\ navs = [x \in Contexts |-> 0]
    /\ created = 0

AssignInit ==
    /\ total_urls \in 1 .. MaxAssignUrls
    /\ concurrent_workers \in 1 .. MaxSlots
    /\ request_proxies \in ProxyLists
    /\ assign_pc = "submitted"
    /\ worker_proxies = <<>>
    /\ url_runs = <<>>
    /\ pool_size = 1
    /\ request_max_retries = max_retries_default
    /\ ScraperParked
    /\ completed = 0
    /\ success = 0
    /\ failed = 0
    /\ in_progress = TRUE
    /\ results = <<>>
    /\ ClassifierIdle
    /\ LegalIdle
    /\ NodriverIdle
    /\ ProxyIdle
    /\ AssignAlone


\* Pre-assign proxies to workers.
BuildWorkerProxies ==
    /\ assign_pc = "submitted"
    /\ assign_pc' = "running"
    /\ worker_proxies' =
          IF Len(request_proxies) > 0
          THEN [worker_id \in 0 .. (concurrent_workers - 1) |->
                    AssignedProxy(request_proxies, worker_id)]
          ELSE <<>>
    /\ UNCHANGED << request_proxies, url_runs, assignOthers >>

\* process_url_with_semaphore(url, index) enters the semaphore.
ProcessUrl(index) ==
    /\ assign_pc = "running"
    /\ index \notin DOMAIN url_runs
    /\ url_runs' =
          [j \in (DOMAIN url_runs) \cup {index} |->
              IF j = index
              THEN [worker_id |-> WorkerId(index),
                    proxy_used |-> ProxyUsed(WorkerId(index)),
                    attempts |-> <<>>]
              ELSE url_runs[j]]
    /\ UNCHANGED << request_proxies, assign_pc, worker_proxies, assignOthers >>

\* One attempt of scraper.scrape_url(url, proxy=proxy_used): the retry
\* wrapper calls the function again with the arguments of the first call.
ScrapeAttempt(index) ==
    /\ index \in DOMAIN url_runs
    /\ Len(url_runs[index].attempts) < max_retries
    /\ url_runs' = [url_runs EXCEPT ![index].attempts = Append(@, url_runs[index].proxy_used)]
    /\ UNCHANGED << request_proxies, assign_pc, worker_proxies, assignOthers >>

AssignNext ==
    \/ BuildWorkerProxies
    \/ \E index \in 0 .. (total_urls - 1) : ProcessUrl(index)
    \/ \E index \in 0 .. (total_urls - 1) : ScrapeAttempt(index)

AssignSpec == AssignInit /\ [][AssignNext]_vars


\* ------------------------------------------------------- get_batch_progress
\* The progress endpoint of app/api/routes.py, polled at any moment of a batch
\* whose URLs complete one by one while the clock advances.  Time is counted
\* in whole ticks; a quotient is kept as a fraction num/den.

MaxTime == 4          \* ticks the clock advances

\* remaining_urls = state.total_urls - state.completed
RemainingUrlsOfTotal(total, done) == total
RemainingUrls(total, done) == total - done

\* estimated_time_remaining as get_batch_progress computes it.
EstimatedRemaining(total, done, running, elapsed) ==
    IF done > 0 /\ running
    THEN IF elapsed = 0
         THEN [kind |-> "ZeroDivisionError", num |-> 0, den |-> 1]
         ELSE LET throughput == [num |-> done, den |-> elapsed]
                  remaining_urls == RemainingUrls(total, done)
              IN IF throughput.num > 0
                 THEN [kind |-> "value",
                       num |-> remaining_urls * throughput.den,
                       den |-> throughput.num]
                 ELSE [kind |-> "None", num |-> 0, den |-> 1]
    ELSE [kind |-> "None", num |-> 0, den |-> 1]

\* The BatchProgress returned (logs left out).
BatchProgress ==
    LET elapsed == now - start_time IN
    [ total_urls |-> total_urls,
      completed |-> completed,
      success |-> success,
      failed |-> failed,
      in_progress |-> in_progress,
      start_time |-> start_time,
      elapsed_time |-> elapsed,
      estimated_time_remaining |-> EstimatedRemaining(total_urls, completed, in_progress, elapsed) ]

\* BatchState(batch_id, total_urls) as extract_batch_urls creates it.
ProgressInit ==
    /\ total_urls \in 1 .. MaxUrls
    /\ concurrent_workers = 1
    /\ pool_size = 1
    /\ request_max_retries = max_retries_default
    /\ ScraperParked
    /\ completed = 0
    /\ success = 0
    /\ failed = 0
    /\ in_progress = TRUE
    /\ results = <<>>
    /\ start_time \in 0 .. 1
    /\ now = start_time
    /\ batch_duration = -1
    /\ progress = <<>>
    /\ ClassifierIdle
    /\ LegalIdle
    /\ NodriverIdle
    /\ ProxyIdle
    /\ ProgressAlone

progressFrame == << total_urls, concurrent_workers, pool_size, request_max_retries, bgpc,
                    semaphore, pc, scraperVars, results, progressOthers >>

\* The clock advances.
Tick ==
    /\ now < start_time + MaxTime
    /\ now' = now + 1
    /\ UNCHANGED << start_time, batch_duration, progress, batchVars, progressFrame >>

\* A URL completes (either path of process_url_with_semaphore); a fetch takes time.
UrlCompletes(found) ==
    /\ in_progress
    /\ completed < total_urls
    /\ now > start_time
    /\ LET c == CountersOnResult(Counters, found) IN
       /\ completed' = c.completed
       /\ success' = c.success
       /\ failed' = c.failed
    /\ UNCHANGED << in_progress, now, start_time, batch_duration, progress, progressFrame >>

\* Mark batch as complete.
BatchEnds ==
    /\ in_progress
    /\ completed = total_urls
    /\ in_progress' = FALSE
    /\ batch_duration' = now - start_time
    /\ UNCHANGED << completed, success, failed, now, start_time, progress, progressFrame >>

get_batch_progress ==
    /\ progress' = BatchProgress
    /\ UNCHANGED << now, start_time, batch_duration, batchVars, progressFrame >>

ProgressNext ==
    \/ Tick
    \/ \E found \in BOOLEAN : UrlCompletes(found)
    \/ BatchEnds
    \/ get_batch_progress

ProgressSpec == ProgressInit /\ [][ProgressNext]_vars


\* -------------------------------------------------------- get_batch_results
\* The results endpoint of app/api/routes.py, as a function of the BatchState
\* of the batch above: what a call made in the current state answers for an
\* id that is in batch_store (the batch's own) or is not.

HTTP_404_NOT_FOUND == 404
HTTP_400_BAD_REQUEST == 400
HTTP_200_OK == 200

NoResults == [results |-> <<>>, total |-> 0, successful |-> 0, failed |-> 0]

get_batch_resultsAnytime(in_store) ==
    IF ~ in_store
    THEN [status_code |-> HTTP_404_NOT_FOUND, body |-> NoResults]
    ELSE [status_code |-> HTTP_200_OK,
          body |-> [results |-> results, total |-> Len(results),
                    successful |-> success, failed |-> failed]]
get_batch_results(in_store) ==
    IF ~ in_store
    THEN [status_code |-> HTTP_404_NOT_FOUND, body |-> NoResults]
    ELSE IF in_progress
         THEN [status_code |-> HTTP_400_BAD_REQUEST, body |-> NoResults]
         ELSE [status_code |-> HTTP_200_OK,
               body |-> [results |-> results, total |-> Len(results),
                         successful |-> success, failed |-> failed]]


\* ------------------------------------------------- POST /api/extract/batch
\* One submission to extract_batch_urls of app/api/routes.py: the body is
\* validated into a BatchExtractionRequest (app/models.py) before the handler
\* runs; the handler creates the BatchState and adds the background task,
\* which takes up the URLs.  A URL of the body is the text it normalises to,
\* as a number; 0 stands for text that is no URL.

urls_min_length == 1
urls_max_length == 100
concurrent_workers_ge == 1
concurrent_workers_le == 50
HTTP_422_UNPROCESSABLE_ENTITY == 422

NotAUrl == 0

\* n different URLs, and the same with the last one repeating the first.
DistinctUrls(n) == [k \in 1 .. n |-> k]
WithDuplicate(n) == [k \in 1 .. n |-> IF k = n THEN 1 ELSE k]
WithInvalid(n) == [k \in 1 .. n |-> IF k = n THEN NotAUrl ELSE k]

Lengths == {0, 1, 2, 3, urls_max_length - 1, urls_max_length, urls_max_length + 1}
Bodies ==
    { DistinctUrls(n) : n \in Lengths }
        \cup { WithDuplicate(n) : n \in Lengths \ {0, 1} }
        \cup { WithInvalid(n) : n \in Lengths \ {0} }
WorkerCounts == {-1, 0, 1, 2, concurrent_workers_le, concurrent_workers_le + 1}

\* List[HttpUrl] = Field(..., min_length=1, max_length=100)
ValidUrlList(v) ==
    /\ Len(v) >= urls_min_length
    /\ Len(v) <= urls_max_length
    /\ \A k \in 1 .. Len(v) : v[k] # NotAUrl

\* validate_unique_urls: len(v) != len(set(str(url) for url in v)) raises.
validate_unique_urlsAccepts(v) == TRUE
validate_unique_urls(v) == Len(v) = Cardinality({ v[k] : k \in 1 .. Len(v) })

\* concurrent_workers: int = Field(10, ge=1, le=50)
ValidWorkers(n) == n >= concurrent_workers_ge /\ n <= concurrent_workers_le

\* The body validates into a BatchExtractionRequest.
Validates(v, n) == ValidUrlList(v) /\ validate_unique_urls(v) /\ ValidWorkers(n)

SubmitInit ==
    /\ body_urls \in Bodies
    /\ body_workers \in WorkerCounts
    /\ submit_pc = "received"
    /\ status_code = 0
    /\ batch_store = 0
    /\ background_tasks = 0
    /\ fetched = 0
    /\ BatchIdle
    /\ ClassifierIdle
    /\ LegalIdle
    /\ NodriverIdle
    /\ ProxyIdle
    /\ SubmitAlone

\* A body that does not validate is answered before the handler is called.
RejectBody ==
    /\ submit_pc = "received"
    /\ ~ Validates(body_urls, body_workers)
    /\ status_code' = HTTP_422_UNPROCESSABLE_ENTITY
    /\ submit_pc' = "answered"
    /\ UNCHANGED << body_urls, body_workers, batch_store, background_tasks, fetched, submitOthers >>

\* extract_batch_urls: Initialize batch state.
CreateBatchState ==
    /\ submit_pc = "received"
    /\ Validates(body_urls, body_workers)
    /\ batch_store' = batch_store + 1
    /\ submit_pc' = "stored"
    /\ UNCHANGED << body_urls, body_workers, status_code, background_tasks, fetched, submitOthers >>

\* extract_batch_urls: Start background processing, return the batch id.
AddTask ==
    /\ submit_pc = "stored"
    /\ background_tasks' = background_tasks + 1
    /\ status_code' = HTTP_200_OK
    /\ submit_pc' = "answered"
    /\ UNCHANGED << body_urls, body_workers, batch_store, fetched, submitOthers >>

\* The background task takes up a URL of the batch.
TakeUpUrl ==
    /\ background_tasks > 0
    /\ fetched < Len(body_urls)
    /\ fetched' = fetched + 1
    /\ UNCHANGED << body_urls, body_workers, submit_pc, status_code, batch_store,
                    background_tasks, submitOthers >>

SubmitNext ==
    \/ RejectBody
    \/ CreateBatchState
    \/ AddTask
    \/ TakeUpUrl

SubmitSpec == SubmitInit /\ [][SubmitNext]_vars


\* ----------------------------------------------------- _scrape_single_page
\* One call of PlaywrightScraper._scrape_single_page, made by scrape_url for
\* the homepage or by scrape_legal_page for a legal page, on a page that takes
\* any time to load and to go idle, under any two timeouts; and what the
\* caller does with the way the call ends.  Times are whole units.

MaxTimeout == 2       \* largest timeout, and longest time a page takes

\* Playwright raises TimeoutError when the awaited state is not reached in time.
ExpiredNever(timeout, after) == FALSE
Expired(timeout, after) == after >= timeout

PageInit ==
    /\ page_caller \in {"homepage", "legal"}
    /\ navigation_timeout \in 1 .. MaxTimeout
    /\ page_load_timeout \in 1 .. MaxTimeout
    /\ loaded_after \in 0 .. MaxTimeout
    /\ idle_after \in 0 .. MaxTimeout
    /\ page_pc = "goto"
    /\ page_result = "none"
    /\ classified = "not asked"
    /\ BatchIdle
    /\ ClassifierIdle
    /\ LegalIdle
    /\ NodriverIdle
    /\ ProxyIdle
    /\ PageAlone

pageFrame == << page_caller, navigation_timeout, page_load_timeout, loaded_after, idle_after,
                pageOthers >>

\* page.goto(url, wait_until='domcontentloaded', timeout=settings.navigation_timeout)
Goto ==
    /\ page_pc = "goto"
    /\ page_pc' = IF Expired(navigation_timeout, loaded_after) THEN "raised" ELSE "wait"
    /\ UNCHANGED << page_result, classified, pageFrame >>

\* page.wait_for_load_state('networkidle', ...): PlaywrightTimeoutError is passed over.
WaitForLoadState ==
    /\ page_pc = "wait"
    /\ page_pc' = IF Expired(page_load_timeout, idle_after) THEN "passed" ELSE "settled"
    /\ UNCHANGED << page_result, classified, pageFrame >>

\* _extract_page_content and search_in_priority_areas; the identifiers are returned.
ExtractContent ==
    /\ page_pc \in {"passed", "settled"}
    /\ page_pc' = "returned"
    /\ page_result' = "identifiers"
    /\ UNCHANGED << classified, pageFrame >>

\* scrape_url does not catch what the homepage call raises: the retry wrapper
\* hands the exception to should_retry_exception.
HomepageCallRaises ==
    /\ page_pc = "raised"
    /\ page_caller = "homepage"
    /\ page_pc' = "propagated"
    /\ page_result' = "exception"
    /\ classified' = IF should_retry_exception(TimeoutMsg) THEN "retry" ELSE "give_up"
    /\ UNCHANGED pageFrame

\* scrape_legal_page catches every exception and returns empty identifiers.
LegalCallRaises ==
    /\ page_pc = "raised"
    /\ page_caller = "legal"
    /\ page_pc' = "caught"
    /\ page_result' = "identifiers"
    /\ UNCHANGED << classified, pageFrame >>

PageNext ==
    \/ Goto
    \/ WaitForLoadState
    \/ ExtractContent
    \/ HomepageCallRaises
    \/ LegalCallRaises

PageSpec == PageInit /\ [][PageNext]_vars


\* ------------------------------------------------------ RateLimiter.acquire
\* One RateLimiter of app/scraper/worker_pool.py shared by a few tasks of one
\* event loop, each calling acquire whenever it likes.  Time passes in whole
\* seconds; a recorded request time is kept as its age (now - req_time), so
\* `req_time > cutoff` reads age < window_seconds and
\* `requests[0] + window_seconds - now` reads window_seconds - age of requests[0].

MaxCallers == 2       \* tasks sharing the limiter
MaxRequests == 2      \* largest max_requests
MaxWindow == 2        \* largest window_seconds

Callers == 1 .. MaxCallers
NoTask == 0

\* [req_time for req_time in self.requests if req_time > cutoff]
RECURSIVE InWindow(_)
InWindow(ages) ==
    IF Len(ages) = 0 THEN <<>>
    ELSE IF Head(ages) < window_seconds
         THEN << Head(ages) >> \o InWindow(Tail(ages))
         ELSE InWindow(Tail(ages))

\* One second later.
Older(ages) == [k \in 1 .. Len(ages) |-> Min(ages[k] + 1, window_seconds)]

RateLimiterInit ==
    /\ max_requests \in 1 .. MaxRequests
    /\ window_seconds \in 1 .. MaxWindow
    /\ requests = <<>>
    /\ lock_holder = NoTask
    /\ lock_waiters = <<>>
    /\ acquire_pc = [c \in Callers |-> "idle"]
    /\ sleep_left = [c \in Callers |-> 0]
    /\ BatchIdle
    /\ ClassifierIdle
    /\ LegalIdle
    /\ NodriverIdle
    /\ ProxyIdle
    /\ LimiterAlone

limiterFrame == << max_requests, window_seconds, limiterOthers >>

\* time.time() moves on by a second.
Second ==
    /\ requests' = Older(requests)
    /\ sleep_left' = [c \in Callers |-> IF sleep_left[c] > 0 THEN sleep_left[c] - 1 ELSE 0]
    /\ UNCHANGED << lock_holder, lock_waiters, acquire_pc, limiterFrame >>

\* A task calls acquire(): it comes to `async with self.lock`.
CallAcquire(c) ==
    /\ acquire_pc[c] \in {"idle", "returned"}
    /\ acquire_pc' = [acquire_pc EXCEPT ![c] = "lock"]
    /\ lock_waiters' = Append(lock_waiters, c)
    /\ UNCHANGED << requests, lock_holder, sleep_left, limiterFrame >>

\* asyncio.Lock.acquire: the first waiter gets the lock once it is free.  The
\* lock is not reentrant: a task that holds it waits like any other.
EnterLock(c) ==
    /\ acquire_pc[c] \in {"lock", "relock"}
    /\ lock_holder = NoTask
    /\ Len(lock_waiters) > 0 /\ Head(lock_waiters) = c
    /\ lock_holder' = c
    /\ lock_waiters' = Tail(lock_waiters)
    /\ acquire_pc' = [acquire_pc EXCEPT ![c] = "locked"]
    /\ UNCHANGED << requests, sleep_left, limiterFrame >>

\* The body under the lock: drop old requests; at the limit go to sleep,
\* otherwise record the request, leave the lock and return.
UnderLock(c) ==
    /\ acquire_pc[c] = "locked"
    /\ LET kept == InWindow(requests)
           sleep_time == window_seconds - kept[1]
       IN IF Len(kept) >= max_requests /\ sleep_time > 0
          THEN /\ requests' = kept
               /\ sleep_left' = [sleep_left EXCEPT ![c] = sleep_time]
               /\ acquire_pc' = [acquire_pc EXCEPT ![c] = "sleep"]
               /\ UNCHANGED << lock_holder, lock_waiters >>
          ELSE /\ requests' = Append(kept, 0)
               /\ lock_holder' = NoTask
               /\ acquire_pc' = [acquire_pc EXCEPT ![c] = "returned"]
               /\ UNCHANGED << sleep_left, lock_waiters >>
    /\ UNCHANGED limiterFrame

\* asyncio.sleep(sleep_time) is over: `return await self.acquire()`, called
\* inside the `async with self.lock` block of the sleeping call.
AcquireAgain(c) ==
    /\ acquire_pc[c] = "sleep"
    /\ sleep_left[c] = 0
    /\ acquire_pc' = [acquire_pc EXCEPT ![c] = "relock"]
    /\ lock_waiters' = Append(lock_waiters, c)
    /\ UNCHANGED << requests, lock_holder, sleep_left, limiterFrame >>

RateLimiterNext ==
    \/ Second
    \/ \E c \in Callers : CallAcquire(c)
    \/ \E c \in Callers : EnterLock(c)
    \/ \E c \in Callers : UnderLock(c)
    \/ \E c \in Callers : AcquireAgain(c)

\* Time advances and the event loop runs every task that can go on.
RateLimiterFairness ==
    /\ WF_vars(Second)
    /\ \A c \in Callers :
          WF_vars(EnterLock(c)) /\ WF_vars(UnderLock(c)) /\ WF_vars(AcquireAgain(c))

RateLimiterSpec == RateLimiterInit /\ [][RateLimiterNext]_vars /\ RateLimiterFairness


\* ------------------------------------------------------ extract_identifiers
\* extract_identifiers of production-version/app/scraper/extractors.py (with
\* the validators of app/scraper/validators.py) and of
\* nodriver-version/extractors.py, applied to a text in which a few
\* identifiers are written.  A string is a sequence of characters.  An
\* identifier is written as a SIREN (9 digits), a SIRET (14 digits) or a VAT
\* number (FR, optional white space, 2 key digits, 9 digits), so each is the
\* match of one pattern only; the text holds no RCS mention.

MaxCandidates == 2    \* identifiers written in the text

BLACKLIST_SIRENS ==
    { << "7", "9", "7", "8", "7", "6", "5", "6", "2" >>,    \* Gestixi
      << "4", "2", "3", "6", "4", "6", "5", "1", "2" >>,    \* OVH
      << "5", "3", "7", "4", "0", "7", "9", "2", "6" >>,    \* Gandi
      << "4", "4", "3", "0", "6", "1", "8", "4", "1" >>,    \* O2Switch
      << "4", "2", "4", "7", "6", "1", "4", "1", "9" >>,    \* Ionos
      << "5", "1", "8", "5", "1", "8", "4", "6", "0" >>,    \* Wix
      << "8", "1", "4", "7", "7", "6", "6", "4", "7" >>,    \* Shopify
      << "8", "9", "0", "1", "7", "6", "7", "0", "3" >>,    \* WordPress.com
      << "4", "3", "3", "1", "1", "5", "9", "0", "4" >>,    \* Adobe
      << "7", "3", "2", "8", "2", "9", "3", "2", "0" >> }    \* Hostinger

\* The shorter list of nodriver-version/config.py.
BLACKLIST_SIRENS_nodriver ==
    { << "7", "9", "7", "8", "7", "6", "5", "6", "2" >>,
      << "4", "2", "3", "6", "4", "6", "5", "1", "2" >>,
      << "5", "3", "7", "4", "0", "7", "9", "2", "6" >>,
      << "4", "4", "3", "0", "6", "1", "8", "4", "1" >> }

\* The companies written in the texts: a host of both lists and a company of neither.
Hosting == << "4", "2", "3", "6", "4", "6", "5", "1", "2" >>
Company == << "5", "5", "2", "1", "2", "0", "2", "2", "2" >>
NotLuhn == << "5", "5", "2", "1", "2", "0", "2", "2", "3" >>

\* What is written after the 9 digits of a SIRET and after the FR of a VAT
\* number: NICs and keys that make the number valid for one of the companies,
\* and ones that do not.
Nics == { << "0", "0", "0", "0", "8" >>, << "0", "0", "0", "0", "5" >>, << "0", "0", "0", "0", "0" >> }
Keys == { << "5", "5" >>, << "2", "7" >>, << "1", "2" >> }

Digit == { "0", "1", "2", "3", "4", "5", "6", "7", "8", "9" }

\* The characters \s matches among those written (a space, a tab).
Whitespace == { " ", "\t" }

int(ch) ==
    CASE ch = "0" -> 0 [] ch = "1" -> 1 [] ch = "2" -> 2 [] ch = "3" -> 3 [] ch = "4" -> 4
      [] ch = "5" -> 5 [] ch = "6" -> 6 [] ch = "7" -> 7 [] ch = "8" -> 8 [] ch = "9" -> 9
      [] ch = "ar2" -> 2

\* Two characters outside ASCII for which str.isdigit() is true: SUPERSCRIPT
\* TWO, which int() refuses, and ARABIC-INDIC DIGIT TWO, which int() reads as 2.
UnicodeDigits == { "sup2", "ar2" }
Decimal == Digit \cup { "ar2" }

isdigit(s) == Len(s) > 0 /\ \A i \in 1 .. Len(s) : s[i] \in Digit \cup UnicodeDigits

\* What \d+ matches: decimal digits only.
isdecimal(s) == Len(s) > 0 /\ \A i \in 1 .. Len(s) : s[i] \in Decimal

upper(s) ==
    [i \in 1 .. Len(s) |-> IF s[i] = "f" THEN "F" ELSE IF s[i] = "r" THEN "R" ELSE s[i]]

\* s with the characters of chars removed: str.replace(c, '') and re.sub(.., '', s).
Without(s, chars) == SelectSeq(s, LAMBDA ch : ch \notin chars)

\* Python's s[a:b] and s[-n:].
Slice(s, a, b) == SubSeq(s, a + 1, Min(b, Len(s)))
LastChars(s, n) == SubSeq(s, IF Len(s) > n THEN Len(s) - n + 1 ELSE 1, Len(s))

\* Python's `c in s` for two strings.
IsSubstring(c, s) ==
    \E i \in 0 .. Len(s) : i + Len(c) <= Len(s) /\ SubSeq(s, i + 1, i + Len(c)) = c

RECURSIVE SumOf(_)
SumOf(numbers) == IF numbers = << >> THEN 0 ELSE Head(numbers) + SumOf(Tail(numbers))

RECURSIVE IntOf(_)
IntOf(s) == IF s = << >> THEN 0 ELSE 10 * IntOf(SubSeq(s, 1, Len(s) - 1)) + int(s[Len(s)])

\* The identifiers a text may hold, as written.
WrittenSirens == { Hosting, Company, NotLuhn }
WrittenSirets == { siren \o nic : siren \in { Hosting, Company }, nic \in Nics }
WrittenTvas ==
    { << "F", "R" >> \o sep \o key \o siren :
        sep \in { << >>, << " " >>, << "\t" >> }, key \in Keys, siren \in { Hosting, Company } }
Written == WrittenSirens \cup WrittenSirets \cup WrittenTvas

WrittenTexts == UNION { [1 .. n -> Written] : n \in 0 .. MaxCandidates }

\* The matches of the three patterns in a text, in order.  On the written
\* forms a match of the SIRET pattern is a run of 14 digits, one of the SIREN
\* pattern a run of 9 digits, one of the VAT pattern FR, at most one
\* white-space character, and 11 digits.
SIRET_PATTERN(m) == Len(m) = 14 /\ isdecimal(m)
SIREN_PATTERN(m) == Len(m) = 9 /\ isdecimal(m)
TVA_PATTERN(m) ==
    /\ Len(m) >= 13
    /\ upper(Slice(m, 0, 2)) = << "F", "R" >>
    /\ Len(Without(Slice(m, 2, Len(m)), Whitespace)) = 11
    /\ isdecimal(Without(Slice(m, 2, Len(m)), Whitespace))

\* ---- app/scraper/validators.py

SIRET_LENGTH == 14
SIREN_LENGTH == 9
TVA_LENGTH == 13
TVA_PREFIX == << "F", "R" >>

LuhnDoubled(d) == SumOf(IF d * 2 > 9 THEN << 1, d * 2 - 10 >> ELSE << d * 2 >>)

\* digits[-1::-2] are summed as they are, digits[-2::-2] doubled.
luhn_checksum(number) ==
    SumOf([i \in 1 .. Len(number) |->
              IF (Len(number) - i) % 2 = 0 THEN int(number[i])
              ELSE LuhnDoubled(int(number[i]))]) % 10 = 0

validate_siret(siret) ==
    /\ siret # << >>
    /\ Len(Without(siret, Whitespace \cup { "-" })) = SIRET_LENGTH
    /\ isdigit(Without(siret, Whitespace \cup { "-" }))
    /\ luhn_checksum(Without(siret, Whitespace \cup { "-" }))

validate_siren(siren) ==
    /\ siren # << >>
    /\ Len(Without(siren, Whitespace \cup { "-" })) = SIREN_LENGTH
    /\ isdigit(Without(siren, Whitespace \cup { "-" }))
    /\ luhn_checksum(Without(siren, Whitespace \cup { "-" }))

validate_tva(tva) ==
    LET t == upper(Without(tva, Whitespace \cup { "-" }))
        numeric_part == Slice(t, 2, Len(t))
        siren == Slice(numeric_part, 2, Len(numeric_part))
    IN  /\ tva # << >>
        /\ Len(t) = TVA_LENGTH
        /\ Slice(t, 0, Len(TVA_PREFIX)) = TVA_PREFIX
        /\ isdigit(numeric_part)
        /\ validate_siren(siren)
        /\ (12 + 3 * (IntOf(siren) % 97)) % 97 = IntOf(Slice(numeric_part, 0, 2))

\* << >> stands for None.
extract_siren_from_siret(siret) ==
    IF ~validate_siret(siret) THEN << >>
    ELSE Slice(Without(siret, Whitespace \cup { "-" }), 0, SIREN_LENGTH)

\* ---- production-version/app/scraper/extractors.py

extract_siret_candidates(text) ==
    [i \in 1 .. Len(SelectSeq(text, SIRET_PATTERN)) |->
        Without(SelectSeq(text, SIRET_PATTERN)[i], Whitespace)]

extract_siren_candidates(text) ==
    [i \in 1 .. Len(SelectSeq(text, SIREN_PATTERN)) |->
        Without(SelectSeq(text, SIREN_PATTERN)[i], Whitespace)]

extract_tva_candidates(text) ==
    [i \in 1 .. Len(SelectSeq(text, TVA_PATTERN)) |->
        upper(Without(SelectSeq(text, TVA_PATTERN)[i], Whitespace))]

\* The three loops of extract_identifiers: the candidate at which the loop
\* breaks, << >> when it runs to its end.
RECURSIVE SiretLoop(_)
SiretLoop(candidates) ==
    IF candidates = << >> THEN << >>
    ELSE IF validate_siret(Head(candidates))
            /\ extract_siren_from_siret(Head(candidates)) \notin BLACKLIST_SIRENS
         THEN Head(candidates)
         ELSE SiretLoop(Tail(candidates))

RECURSIVE SirenLoop(_, _)
SirenLoop(candidates, siret_candidates) ==
    IF candidates = << >> THEN << >>
    ELSE IF Head(candidates) \in BLACKLIST_SIRENS
         THEN SirenLoop(Tail(candidates), siret_candidates)
         ELSE IF \E k \in 1 .. Len(siret_candidates) :
                     IsSubstring(Head(candidates), siret_candidates[k])
              THEN SirenLoop(Tail(candidates), siret_candidates)
              ELSE IF validate_siren(Head(candidates))
                   THEN Head(candidates)
                   ELSE SirenLoop(Tail(candidates), siret_candidates)

RECURSIVE TvaLoop(_)
TvaLoop(candidates) ==
    IF candidates = << >> THEN << >>
    ELSE IF validate_tva(Head(candidates))
            /\ ~(Len(Head(candidates)) >= 11
                 /\ LastChars(Head(candidates), 9) \in BLACKLIST_SIRENS)
         THEN Head(candidates)
         ELSE TvaLoop(Tail(candidates))

production_extract_identifiers(text) ==
    LET siret == SiretLoop(extract_siret_candidates(text))
        siren1 == IF siret # << >> THEN extract_siren_from_siret(siret) ELSE << >>
        siren2 == IF siren1 # << >> THEN siren1
                  ELSE SirenLoop(extract_siren_candidates(text), extract_siret_candidates(text))
        tva == TvaLoop(extract_tva_candidates(text))
        siren3 == IF siren2 = << >> /\ tva # << >> /\ Len(tva) >= 11
                     /\ validate_siren(LastChars(tva, 9))
                     /\ LastChars(tva, 9) \notin BLACKLIST_SIRENS
                  THEN LastChars(tva, 9)
                  ELSE siren2
    IN  IF text = << >> THEN [siret |-> << >>, siren |-> << >>, tva |-> << >>]
        ELSE [siret |-> siret, siren |-> siren3, tva |-> tva]

\* ---- nodriver-version/validators.py

clean_number(text) == Without(Without(text, { " " }), { "nbsp" })

is_siret_valid(siret) ==
    LET cleaned == Without(siret, { " " })
    IN  /\ Len(cleaned) = 14
        /\ isdigit(cleaned)
        /\ IF Slice(cleaned, 0, 9) = << "3", "5", "6", "0", "0", "0", "0", "0", "0" >>
           THEN SumOf([i \in 1 .. Len(cleaned) |-> int(cleaned[i])]) % 5 = 0
           ELSE SumOf([i \in 1 .. Len(cleaned) |->
                         IF (i - 1) % 2 = 0
                         THEN (IF int(cleaned[i]) * 2 > 9 THEN int(cleaned[i]) * 2 - 9
                               ELSE int(cleaned[i]) * 2)
                         ELSE int(cleaned[i])]) % 10 = 0

is_siren_valid(siren) ==
    LET cleaned == Without(siren, { " " })
    IN  /\ Len(cleaned) = 9
        /\ isdigit(cleaned)
        /\ SumOf([i \in 1 .. Len(cleaned) |->
                    IF (i - 1) % 2 = 1
                    THEN (IF int(cleaned[i]) * 2 > 9 THEN int(cleaned[i]) * 2 - 9
                          ELSE int(cleaned[i]) * 2)
                    ELSE int(cleaned[i])]) % 10 = 0

\* ---- nodriver-version/extractors.py

Identifier(siret, siren, tva) == [siret |-> siret, siren |-> siren, tva |-> tva, valid |-> TRUE]

\* The loops of extract_identifiers over the matches of a pattern; acc holds
\* results and seen.
RECURSIVE SiretMatches(_, _)
SiretMatches(matches, acc) ==
    IF matches = << >> THEN acc
    ELSE LET siret == clean_number(Head(matches))
             siren == Slice(siret, 0, 9)
         IN  SiretMatches(Tail(matches),
                 IF siret \notin acc.seen /\ is_siret_valid(siret)
                    /\ siren \notin BLACKLIST_SIRENS_nodriver
                 THEN [results |-> Append(acc.results, Identifier(siret, siren, << >>)),
                       seen |-> acc.seen \cup { siret }]
                 ELSE acc)

RECURSIVE TvaMatches(_, _)
TvaMatches(matches, acc) ==
    IF matches = << >> THEN acc
    ELSE LET tva == upper(clean_number(Head(matches)))
             siren == Slice(tva, 4, 13)
         IN  TvaMatches(Tail(matches),
                 IF tva \notin acc.seen /\ is_siren_valid(siren)
                    /\ siren \notin BLACKLIST_SIRENS_nodriver
                 THEN [results |-> Append(acc.results, Identifier(<< >>, siren, tva)),
                       seen |-> acc.seen \cup { tva }]
                 ELSE acc)

RECURSIVE SirenMatches(_, _)
SirenMatches(matches, acc) ==
    IF matches = << >> THEN acc
    ELSE LET siren == clean_number(Head(matches))
             already_have == \E k \in 1 .. Len(acc.results) : acc.results[k].siren = siren
         IN  SirenMatches(Tail(matches),
                 IF ~already_have /\ siren \notin acc.seen /\ is_siren_valid(siren)
                    /\ siren \notin BLACKLIST_SIRENS_nodriver
                 THEN [results |-> Append(acc.results, Identifier(<< >>, siren, << >>)),
                       seen |-> acc.seen \cup { siren }]
                 ELSE acc)

nodriver_extract_identifiers(text) ==
    SirenMatches(SelectSeq(text, SIREN_PATTERN),
        TvaMatches(SelectSeq(text, TVA_PATTERN),
            SiretMatches(SelectSeq(text, SIRET_PATTERN),
                [results |-> << >>, seen |-> { }]))).results

\* The text "SIRET : 73282932000074": one run of 14 digits.
ScenarioSiret == << "7", "3", "2", "8", "2", "9", "3", "2", "0", "0", "0", "0", "7", "4" >>
ScenarioSiren == << "7", "3", "2", "8", "2", "9", "3", "2", "0" >>
ScenarioTexts == { << ScenarioSiret >> }

ExtractInit ==
    /\ BatchIdle
    /\ ClassifierIdle
    /\ LegalIdle
    /\ NodriverIdle
    /\ ProxyIdle
    /\ ExtractAlone
    /\ page_text \in WrittenTexts \cup ScenarioTexts
    /\ extract_pc = "text"
    /\ production_result = << >>
    /\ nodriver_results = << >>

\* extract_identifiers(text) of the production version.
ProductionExtract ==
    /\ extract_pc = "text"
    /\ production_result' = production_extract_identifiers(page_text)
    /\ extract_pc' = "production"
    /\ UNCHANGED << page_text, nodriver_results, extractOthers >>

\* extract_identifiers(text) of the nodriver version.
NodriverExtract ==
    /\ extract_pc = "text"
    /\ nodriver_results' = nodriver_extract_identifiers(page_text)
    /\ extract_pc' = "nodriver"
    /\ UNCHANGED << page_text, production_result, extractOthers >>

ExtractNext == ProductionExtract \/ NodriverExtract

ExtractSpec == ExtractInit /\ [][ExtractNext]_vars


\* ------------------------------------------------------------- validators
\* validate_siret, validate_siren and validate_tva of app/scraper/validators.py
\* called with one string: a valid SIREN, SIRET or VAT number, one of them
\* with one character replaced or with its last character missing, or the
\* empty string.  A call returns True or False, or raises the ValueError of
\* int() on a character that str.isdigit() accepts and int() refuses.

ValidNumbers ==
    { Company,
      Company \o << "0", "0", "0", "0", "5" >>,
      << "F", "R", "2", "7" >> \o Company }

Replacements == { "sup2", "ar2", "x", "-", " ", "9" }

Replaced(s, p, ch) == [i \in 1 .. Len(s) |-> IF i = p THEN ch ELSE s[i]]

ValidatorInputs ==
    { << >> }
    \cup ValidNumbers
    \cup { SubSeq(s, 1, Len(s) - 1) : s \in ValidNumbers }
    \cup UNION { { Replaced(s, p, ch) : p \in 1 .. Len(s), ch \in Replacements } : s \in ValidNumbers }

\* int(d) of digits_of raises for a character of the number.
luhn_checksum_raises(number) == \E i \in 1 .. Len(number) : number[i] \notin Decimal

validate_siret_raises(siret) ==
    /\ siret # << >>
    /\ Len(Without(siret, Whitespace \cup { "-" })) = SIRET_LENGTH
    /\ isdigit(Without(siret, Whitespace \cup { "-" }))
    /\ luhn_checksum_raises(Without(siret, Whitespace \cup { "-" }))

validate_siren_raises(siren) ==
    /\ siren # << >>
    /\ Len(Without(siren, Whitespace \cup { "-" })) = SIREN_LENGTH
    /\ isdigit(Without(siren, Whitespace \cup { "-" }))
    /\ luhn_checksum_raises(Without(siren, Whitespace \cup { "-" }))

\* validate_siren(siren) raises, or it returns True and int(numeric_part[:2]) raises.
validate_tva_raises(tva) ==
    LET t == upper(Without(tva, Whitespace \cup { "-" }))
        numeric_part == Slice(t, 2, Len(t))
        siren == Slice(numeric_part, 2, Len(numeric_part))
    IN  /\ tva # << >>
        /\ Len(t) = TVA_LENGTH
        /\ Slice(t, 0, Len(TVA_PREFIX)) = TVA_PREFIX
        /\ isdigit(numeric_part)
        /\ \/ validate_siren_raises(siren)
           \/ /\ validate_siren(siren)
              /\ \E i \in 1 .. 2 : numeric_part[i] \notin Decimal

\* The outcome of a call: the exception when it raises, else the value returned.
Outcome(raises, value) == IF raises THEN "ValueError" ELSE IF value THEN "True" ELSE "False"

ValidatorInit ==
    /\ BatchIdle
    /\ ClassifierIdle
    /\ LegalIdle
    /\ NodriverIdle
    /\ ProxyIdle
    /\ ValidatorAlone
    /\ validator_input \in ValidatorInputs
    /\ validator_called = "none"
    /\ validator_outcome = "none"

CallValidateSiret ==
    /\ validator_called = "none"
    /\ validator_called' = "validate_siret"
    /\ validator_outcome' = Outcome(validate_siret_raises(validator_input),
                                    ~validate_siret_raises(validator_input)
                                        /\ validate_siret(validator_input))
    /\ UNCHANGED << validator_input, validatorOthers >>

CallValidateSiren ==
    /\ validator_called = "none"
    /\ validator_called' = "validate_siren"
    /\ validator_outcome' = Outcome(validate_siren_raises(validator_input),
                                    ~validate_siren_raises(validator_input)
                                        /\ validate_siren(validator_input))
    /\ UNCHANGED << validator_input, validatorOthers >>

CallValidateTva ==
    /\ validator_called = "none"
    /\ validator_called' = "validate_tva"
    /\ validator_outcome' = Outcome(validate_tva_raises(validator_input),
                                    ~validate_tva_raises(validator_input)
                                        /\ validate_tva(validator_input))
    /\ UNCHANGED << validator_input, validatorOthers >>

ValidatorNext == CallValidateSiret \/ CallValidateSiren \/ CallValidateTva

ValidatorSpec == ValidatorInit /\ [][ValidatorNext]_vars


\* ------------------------------------------------- search_in_priority_areas
\* search_in_priority_areas of production-version/app/scraper/extractors.py,
\* called with the text of the full page and with the texts of a few priority
\* sections.  The sequence of texts extract_identifiers is called with is
\* kept, to tell which texts were consulted.

MaxSections == 2    \* priority sections of a page

SectionTexts ==
    { << >>,
      << Company >>,
      << Hosting >>,
      << NotLuhn >>,
      << Company \o << "0", "0", "0", "0", "5" >> >>,
      << << "F", "R", "2", "7" >> \o Company >> }

SectionLists == UNION { [1 .. n -> SectionTexts] : n \in 0 .. MaxSections }

\* any(identifiers.values())
any_identifier(identifiers) ==
    identifiers.siret # << >> \/ identifiers.siren # << >> \/ identifiers.tva # << >>

Searched(identifiers, consulted) == [identifiers |-> identifiers, consulted |-> consulted]

\* Falls back to the full page at once.
search_in_priority_areasPageOnly(page_content, priority_sections) ==
    Searched(production_extract_identifiers(page_content), << page_content >>)

\* The loop over the sections: found tells whether it returned.
RECURSIVE SectionLoop(_, _)
SectionLoop(sections, consulted) ==
    IF sections = << >> THEN [found |-> FALSE, identifiers |-> << >>, consulted |-> consulted]
    ELSE IF Head(sections) = << >> THEN SectionLoop(Tail(sections), consulted)
    ELSE IF any_identifier(production_extract_identifiers(Head(sections)))
         THEN [found |-> TRUE,
               identifiers |-> production_extract_identifiers(Head(sections)),
               consulted |-> Append(consulted, Head(sections))]
         ELSE SectionLoop(Tail(sections), Append(consulted, Head(sections)))

search_in_priority_areas(page_content, priority_sections) ==
    IF SectionLoop(priority_sections, << >>).found
    THEN Searched(SectionLoop(priority_sections, << >>).identifiers,
                  SectionLoop(priority_sections, << >>).consulted)
    ELSE Searched(production_extract_identifiers(page_content),
                  Append(SectionLoop(priority_sections, << >>).consulted, page_content))

SearchInit ==
    /\ BatchIdle
    /\ ClassifierIdle
    /\ LegalIdle
    /\ NodriverIdle
    /\ ProxyIdle
    /\ SearchAlone
    /\ search_sections \in SectionLists
    /\ search_page \in SectionTexts
    /\ search_pc = "called"
    /\ search_result = << >>
    /\ search_consulted = << >>

SearchReturns ==
    /\ search_pc = "called"
    /\ search_result' = search_in_priority_areas(search_page, search_sections).identifiers
    /\ search_consulted' = search_in_priority_areas(search_page, search_sections).consulted
    /\ search_pc' = "returned"
    /\ UNCHANGED << search_sections, search_page, searchOthers >>

SearchNext == SearchReturns

SearchSpec == SearchInit /\ [][SearchNext]_vars


\* ---------------------------------- process_batch_background: slots and egress
\* The worker slot and the proxy each URL of a batch is processed under, while
\* other URLs are in flight, and the proxy each of its page fetches leaves
\* through.  Tasks pass the semaphore in list order; a task makes up to
\* MaxFetches page fetches (homepage, legal pages, retries) before it completes.

MaxBatchUrls == 3       \* most URLs of the batch
MaxBatchWorkers == 2    \* largest concurrent_workers
MaxFetches == 2         \* most page fetches followed per URL

\* _create_context_for_pool(proxy): the proxy option of the new context.
create_context_for_pool(proxy) == proxy

\* A page fetch of scrape_url(url, proxy): context.new_page() and page.goto on
\* a context of the pool; the proxy argument takes no part in it.
FetchEgress(proxy, context) == context

\* proxy_used[:50] if proxy_used else None; the proxies here are shorter than
\* 50 characters.
ProxyDisplay(proxy_used) == IF proxy_used = None THEN None ELSE proxy_used

\* worker_proxies.get(worker_id) if worker_proxies else None
SlotProxy(worker_id) ==
    IF DOMAIN slot_proxies = {} THEN None
    ELSE IF worker_id \in DOMAIN slot_proxies THEN slot_proxies[worker_id] ELSE None

Pending == [state |-> "pending", worker_id |-> 0, proxy_used |-> None, egress |-> << >>]

SlotInit ==
    /\ BatchIdle
    /\ ClassifierIdle
    /\ LegalIdle
    /\ NodriverIdle
    /\ ProxyIdle
    /\ SlotAlone
    /\ batch_urls \in 1 .. MaxBatchUrls
    /\ batch_workers \in 1 .. MaxBatchWorkers
    /\ batch_proxy_list \in ProxyLists
    /\ batch_pc = "start"
    /\ slot_proxies = << >>
    /\ permits = batch_workers
    /\ context_proxy = None
    /\ tasks = [index \in 0 .. (batch_urls - 1) |-> Pending]
    /\ task_results = << >>

\* scraper.start() fills the pool with contexts created without a proxy
\* argument; then the proxies are pre-assigned to the workers.
SlotStart ==
    /\ batch_pc = "start"
    /\ batch_pc' = "gather"
    /\ context_proxy' = create_context_for_pool(None)
    /\ slot_proxies' =
          IF Len(batch_proxy_list) > 0
          THEN [worker_id \in 0 .. (batch_workers - 1) |->
                    AssignedProxy(batch_proxy_list, worker_id)]
          ELSE << >>
    /\ UNCHANGED << batch_urls, batch_workers, batch_proxy_list, permits, tasks,
                    task_results, slotOthers >>

\* async with semaphore: the task of the URL at index takes a permit.
SlotEnter(index) ==
    /\ batch_pc = "gather"
    /\ tasks[index].state = "pending"
    /\ \A j \in 0 .. (index - 1) : tasks[j].state # "pending"
    /\ permits > 0
    /\ permits' = permits - 1
    /\ tasks' = [tasks EXCEPT ![index] =
                    [state |-> "scraping",
                     worker_id |-> index % batch_workers,
                     proxy_used |-> SlotProxy(index % batch_workers),
                     egress |-> << >>]]
    /\ UNCHANGED << batch_urls, batch_workers, batch_proxy_list, batch_pc, slot_proxies,
                    context_proxy, task_results, slotOthers >>

\* A page fetch of scraper.scrape_url(url, proxy=proxy_used).
SlotFetch(index) ==
    /\ tasks[index].state = "scraping"
    /\ Len(tasks[index].egress) < MaxFetches
    /\ tasks' = [tasks EXCEPT ![index].egress =
                    Append(@, FetchEgress(tasks[index].proxy_used, context_proxy))]
    /\ UNCHANGED << batch_urls, batch_workers, batch_proxy_list, batch_pc, slot_proxies,
                    permits, context_proxy, task_results, slotOthers >>

\* The result is built and appended, the task leaves the semaphore.
SlotComplete(index) ==
    /\ tasks[index].state = "scraping"
    /\ tasks' = [tasks EXCEPT ![index].state = "done"]
    /\ task_results' = Append(task_results,
                              [url |-> index,
                               worker_id |-> tasks[index].worker_id,
                               proxy_used |-> ProxyDisplay(tasks[index].proxy_used)])
    /\ permits' = permits + 1
    /\ UNCHANGED << batch_urls, batch_workers, batch_proxy_list, batch_pc, slot_proxies,
                    context_proxy, slotOthers >>

SlotNext ==
    \/ SlotStart
    \/ \E index \in 0 .. (batch_urls - 1) : SlotEnter(index)
    \/ \E index \in 0 .. (batch_urls - 1) : SlotFetch(index)
    \/ \E index \in 0 .. (batch_urls - 1) : SlotComplete(index)

SlotSpec == SlotInit /\ [][SlotNext]_vars


\* ------------------------------------------------- nodriver WorkerPool.run
\* WorkerPool.run of nodriver-version/main.py over a list of up to MaxRunUrls
\* URLs with up to MaxRunWorkers workers.  A URL is known by its position in
\* the list.  scrape_site returns a ScrapeResult or raises; what it does with
\* the site is not followed here.

MaxRunUrls == 2       \* longest URL list
MaxRunWorkers == 2    \* largest max_workers

NoUrl == 0

\* self.queue.task_done()
task_doneSkipped(unfinished) == unfinished
task_done(unfinished) == unfinished - 1

RunInit ==
    /\ BatchIdle
    /\ ClassifierIdle
    /\ LegalIdle
    /\ NodriverIdle
    /\ ProxyIdle
    /\ PoolAlone
    /\ run_urls \in 0 .. MaxRunUrls
    /\ pool_max_workers \in 1 .. MaxRunWorkers
    /\ run_pc = "called"
    /\ url_queue = << >>
    /\ unfinished_tasks = 0
    /\ workers = << >>
    /\ pool_results = << >>

poolFrame == << run_urls, pool_max_workers, poolOthers >>

\* run: every URL is put in the queue, the worker tasks are created, and run
\* waits in queue.join().
RunStarts ==
    /\ run_pc = "called"
    /\ url_queue' = [k \in 1 .. run_urls |-> k]
    /\ unfinished_tasks' = run_urls
    /\ workers' = [k \in 1 .. pool_max_workers |-> [pc |-> "created", url |-> NoUrl]]
    /\ run_pc' = "join"
    /\ UNCHANGED << pool_results, poolFrame >>

\* The worker task runs for the first time, up to its first queue.get().
WorkerStarts(wk) ==
    /\ workers[wk].pc = "created"
    /\ workers' = [workers EXCEPT ![wk].pc = "get"]
    /\ UNCHANGED << run_pc, url_queue, unfinished_tasks, pool_results, poolFrame >>

\* queue.get() returns the URL at the front of the queue; scrape_site is called.
WorkerGets(wk) ==
    /\ workers[wk].pc = "get"
    /\ url_queue # << >>
    /\ workers' = [workers EXCEPT ![wk] = [pc |-> "scraping", url |-> Head(url_queue)]]
    /\ url_queue' = Tail(url_queue)
    /\ UNCHANGED << run_pc, unfinished_tasks, pool_results, poolFrame >>

\* queue.get() times out after a second with the queue empty: the worker
\* leaves its loop.
WorkerTimesOut(wk) ==
    /\ workers[wk].pc = "get"
    /\ url_queue = << >>
    /\ workers' = [workers EXCEPT ![wk].pc = "finished"]
    /\ UNCHANGED << run_pc, url_queue, unfinished_tasks, pool_results, poolFrame >>

\* scrape_site returns: the result is appended and the worker sleeps for
\* delay_between_requests.
ScrapeReturns(wk) ==
    /\ workers[wk].pc = "scraping"
    /\ pool_results' = Append(pool_results,
                              [url |-> workers[wk].url, worker_id |-> wk - 1, status |-> "scraped"])
    /\ workers' = [workers EXCEPT ![wk].pc = "sleeping"]
    /\ UNCHANGED << run_pc, url_queue, unfinished_tasks, poolFrame >>

\* scrape_site raises: an error result is appended, then the finally block
\* marks the queue item done and the loop goes on.
ScrapeRaises(wk) ==
    /\ workers[wk].pc = "scraping"
    /\ pool_results' = Append(pool_results,
                              [url |-> workers[wk].url, worker_id |-> wk - 1, status |-> "error"])
    /\ unfinished_tasks' = task_done(unfinished_tasks)
    /\ workers' = [workers EXCEPT ![wk] = [pc |-> "get", url |-> NoUrl]]
    /\ UNCHANGED << run_pc, url_queue, poolFrame >>

\* The sleep is over: the finally block marks the queue item done.
SleepOver(wk) ==
    /\ workers[wk].pc = "sleeping"
    /\ unfinished_tasks' = task_done(unfinished_tasks)
    /\ workers' = [workers EXCEPT ![wk] = [pc |-> "get", url |-> NoUrl]]
    /\ UNCHANGED << run_pc, url_queue, pool_results, poolFrame >>

\* queue.join() returns: every worker task is cancelled.
JoinReturns ==
    /\ run_pc = "join"
    /\ unfinished_tasks = 0
    /\ run_pc' = "cancelled"
    /\ workers' = [k \in DOMAIN workers |->
                      IF workers[k].pc = "finished" THEN workers[k]
                      ELSE [workers[k] EXCEPT !.pc = "cancelling"]]
    /\ UNCHANGED << url_queue, unfinished_tasks, pool_results, poolFrame >>

\* CancelledError is thrown into the worker at its await: it ends.
WorkerCancelled(wk) ==
    /\ workers[wk].pc = "cancelling"
    /\ workers' = [workers EXCEPT ![wk].pc = "finished"]
    /\ UNCHANGED << run_pc, url_queue, unfinished_tasks, pool_results, poolFrame >>

\* asyncio.gather(*self.workers, return_exceptions=True) returns.
RunReturns ==
    /\ run_pc = "cancelled"
    /\ \A k \in DOMAIN workers : workers[k].pc = "finished"
    /\ run_pc' = "returned"
    /\ UNCHANGED << url_queue, unfinished_tasks, workers, pool_results, poolFrame >>

RunNext ==
    \/ RunStarts
    \/ JoinReturns
    \/ RunReturns
    \/ \E wk \in DOMAIN workers : WorkerStarts(wk)
    \/ \E wk \in DOMAIN workers : WorkerGets(wk)
    \/ \E wk \in DOMAIN workers : WorkerTimesOut(wk)
    \/ \E wk \in DOMAIN workers : ScrapeReturns(wk)
    \/ \E wk \in DOMAIN workers : ScrapeRaises(wk)
    \/ \E wk \in DOMAIN workers : SleepOver(wk)
    \/ \E wk \in DOMAIN workers : WorkerCancelled(wk)

\* The event loop runs every task that can run, and scrape_site and the
\* sleeps come to an end.
RunFairness ==
    /\ WF_vars(RunStarts)
    /\ WF_vars(JoinReturns)
    /\ WF_vars(RunReturns)
    /\ \A wk \in 1 .. MaxRunWorkers :
          /\ WF_vars(wk \in DOMAIN workers /\ WorkerStarts(wk))
          /\ WF_vars(wk \in DOMAIN workers /\ WorkerGets(wk))
          /\ WF_vars(wk \in DOMAIN workers /\ WorkerTimesOut(wk))
          /\ WF_vars(wk \in DOMAIN workers /\ (ScrapeReturns(wk) \/ ScrapeRaises(wk)))
          /\ WF_vars(wk \in DOMAIN workers /\ SleepOver(wk))
          /\ WF_vars(wk \in DOMAIN workers /\ WorkerCancelled(wk))

RunSpec == RunInit /\ [][RunNext]_vars /\ RunFairness


\* --------------------------------------------------------- app WorkerPool
\* WorkerPool of app/scraper/worker_pool.py: up to MaxGateTasks tasks are
\* submitted through execute_task, execute_tasks (one execute_task per item)
\* or execute_with_timeout, while set_max_workers is called up to MaxSetCalls
\* times with a value up to MaxGateWorkers.  A task waits on the semaphore
\* object that self.semaphore named when it was submitted.

MaxGateTasks == 2      \* tasks submitted
MaxGateWorkers == 2    \* largest max_workers
MaxSetCalls == 1       \* set_max_workers calls

EntryPoints == { "execute_task", "execute_tasks", "execute_with_timeout" }

NotSubmitted == [pc |-> "new", via |-> "none", semaphore |-> 0]

GateInit ==
    /\ BatchIdle
    /\ ClassifierIdle
    /\ LegalIdle
    /\ NodriverIdle
    /\ ProxyIdle
    /\ GateAlone
    /\ gate_max_workers \in 1 .. MaxGateWorkers
    /\ semaphores = << gate_max_workers >>
    /\ gate_semaphore = 1
    /\ gate_tasks = [t \in 1 .. MaxGateTasks |-> NotSubmitted]
    /\ last_set = << >>

\* async with self.semaphore: the task reads self.semaphore and calls acquire.
Submit(t, via) ==
    /\ gate_tasks[t].pc = "new"
    /\ gate_tasks' = [gate_tasks EXCEPT ![t] =
                         [pc |-> "waiting", via |-> via, semaphore |-> gate_semaphore]]
    /\ UNCHANGED << gate_max_workers, semaphores, gate_semaphore, last_set, gateOthers >>

\* acquire returns: task_func runs.
EnterGate(t) ==
    /\ gate_tasks[t].pc = "waiting"
    /\ semaphores[gate_tasks[t].semaphore] > 0
    /\ semaphores' = [semaphores EXCEPT ![gate_tasks[t].semaphore] = @ - 1]
    /\ gate_tasks' = [gate_tasks EXCEPT ![t].pc = "running"]
    /\ UNCHANGED << gate_max_workers, gate_semaphore, last_set, gateOthers >>

\* task_func returns, raises or (execute_with_timeout) is timed out: the
\* semaphore entered is released.
LeaveGate(t) ==
    /\ gate_tasks[t].pc = "running"
    /\ semaphores' = [semaphores EXCEPT ![gate_tasks[t].semaphore] = @ + 1]
    /\ gate_tasks' = [gate_tasks EXCEPT ![t].pc = "done"]
    /\ UNCHANGED << gate_max_workers, gate_semaphore, last_set, gateOthers >>

\* set_max_workers(n)
set_max_workers(n) ==
    /\ Len(semaphores) <= MaxSetCalls
    /\ last_set' = [max_workers |-> n, raised |-> n < 1,
                    max_before |-> gate_max_workers, semaphore_before |-> gate_semaphore]
    /\ IF n < 1
       THEN UNCHANGED << gate_max_workers, semaphores, gate_semaphore >>
       ELSE /\ gate_max_workers' = n
            /\ semaphores' = Append(semaphores, n)
            /\ gate_semaphore' = Len(semaphores) + 1
    /\ UNCHANGED << gate_tasks, gateOthers >>

GateNext ==
    \/ \E t \in 1 .. MaxGateTasks, via \in EntryPoints : Submit(t, via)
    \/ \E t \in 1 .. MaxGateTasks : EnterGate(t)
    \/ \E t \in 1 .. MaxGateTasks : LeaveGate(t)
    \/ \E n \in 0 .. MaxGateWorkers : set_max_workers(n)

GateSpec == GateInit /\ [][GateNext]_vars


\* ------------------------------------------------------------------ claims

\* URL resolutions admitted past the gate and not yet completed.
InFlight ==
    { i \in Urls : pc[i] \in {"getctx", "creating", "home", "legal", "return", "closing"} }

RecordsOf(u) == { k \in 1 .. Len(results) : results[k].url = u }

\* C1: at every reachable state the number of URL resolutions in flight is at
\* most concurrent_workers.
C1_ConcurrencyBound == Cardinality(InFlight) <= concurrent_workers

\* The gate is saturated and a further URL waits behind it.
C1_Witness ==
    /\ Cardinality(InFlight) = concurrent_workers
    /\ \E i \in Urls : pc[i] = "pending"

\* C2: in every state (each one is observable by a progress query)
\* completed = success + failed and completed <= total_urls, and no step
\* decreases completed, success or failed.
C2_BatchInvariant ==
    /\ [](completed = success + failed /\ completed <= total_urls)
    /\ [][completed' >= completed /\ success' >= success /\ failed' >= failed]_vars

\* Both kinds of completion have been counted.
C2_Witness == success >= 1 /\ failed >= 1

\* C3: in_progress is false only when completed = total_urls and the result
\* list holds exactly one record per submitted URL.
C3_TerminalOnlyWhenAllRecorded ==
    in_progress = FALSE =>
        /\ completed = total_urls
        /\ Len(results) = total_urls
        /\ \A u \in Urls : Cardinality(RecordsOf(u)) = 1

\* A batch of several URLs has become terminal.
C3_Witness == in_progress = FALSE /\ total_urls >= 2

\* C4: every run of process_batch_background reaches in_progress = false,
\* whatever the outcome of starting the scraper: once the background task has
\* ended, normally or by an exception, the batch is terminal.
C4_EndedBatchIsTerminal == bgpc \in {"done", "crashed"} => in_progress = FALSE

\* C5: the failure of one URL becomes that URL's error record, is not a
\* batch-level failure, and leaves every sibling untouched; every URL of a
\* finished task has its own record.
C5_FailureIsolated ==
    /\ [](/\ bgpc = "crashed" => \A i \in Urls : pc[i] = "idle"
          /\ \A i \in Urls : pc[i] = "done" => Cardinality(RecordsOf(i)) = 1)
    /\ [][\A i \in Urls :
            (pc[i] = "closing" /\ outcome[i] = "raise" /\ pc'[i] = "done") =>
                /\ results' = Append(results, ErrorRecord(i, failure[i]))
                /\ \A j \in Urls \ {i} : pc'[j] = pc[j]
                /\ bgpc' = bgpc]_vars

\* A URL failed and a sibling's own outcome was recorded after it.
C5_Witness ==
    \E k, m \in 1 .. Len(results) :
        k < m /\ results[k].status = "error" /\ results[m].status # "error"

\* C6: no context ever carries two page navigations at once.
C6_OneNavigationPerContext == \A x \in Contexts : navs[x] <= 1

\* C7: no context is held by two attempts at once, and no held context is in
\* the pool.
C7_ExclusiveOwnership ==
    /\ \A i, j \in Urls : (i # j /\ held[i] # NoContext) => held[i] # held[j]
    /\ \A i \in Urls : \A k \in 1 .. Len(context_pool) :
           held[i] # NoContext => context_pool[k] # held[i]

\* One context is back in the pool after use while another is still held.
C7_Witness ==
    /\ \E i \in Urls : held[i] # NoContext
    /\ \E i \in Urls : pc[i] = "done"
    /\ Len(context_pool) >= 1

\* C8: every context in the pool has no open page.
C8_PooledContextsClean ==
    \A k \in 1 .. Len(context_pool) : pages[context_pool[k]] = 0

\* A context that carried a page has been checked in after a failed attempt
\* and is pooled while the batch runs.
C8_Witness ==
    /\ bgpc = "gather"
    /\ Len(context_pool) >= 1
    /\ \E i \in Urls : attempt[i] > 1

\* The failures the claim calls permanent.
PermanentKind(e) == e = DnsMsg

\* C9: a permanent failure is never followed by another attempt: the step that
\* handles it records the URL's error outcome with that failure.
C9_PermanentNeverRetried ==
    [][\A i \in Urls :
         (pc[i] = "closing" /\ outcome[i] = "raise" /\ PermanentKind(failure[i])
            /\ pc'[i] # pc[i]) =>
             /\ pc'[i] = "done"
             /\ attempt'[i] = 0
             /\ results' = Append(results, ErrorRecord(i, failure[i]))]_vars

\* A permanent failure has been recorded.
C9_Witness == \E k \in 1 .. Len(results) : results[k].error = DnsMsg

\* C10: a URL is attempted at most max_retries times, an attempt starts only
\* after the previous one failed, and the failure of the last allowed attempt
\* is recorded as the URL's error outcome with its message.
C10_BoundedRetries ==
    /\ [](\A i \in Urls : attempt[i] <= max_retries)
    /\ [][\A i \in Urls :
            /\ (attempt[i] >= 1 /\ attempt'[i] > attempt[i]) =>
                   /\ attempt'[i] = attempt[i] + 1
                   /\ pc[i] = "closing"
                   /\ outcome[i] = "raise"
            /\ (pc[i] = "closing" /\ outcome[i] = "raise"
                  /\ attempt[i] = max_retries /\ pc'[i] # pc[i]) =>
                   /\ pc'[i] = "done"
                   /\ results' = Append(results, ErrorRecord(i, failure[i]))]_vars

\* A retryable failure has been recorded, which happens only on exhaustion.
C10_Witness ==
    \E k \in 1 .. Len(results) :
        results[k].status = "error" /\ results[k].error \in {TimeoutMsg, AbortedMsg}

\* C11: every failure that is not of a permanent kind (every navigation
\* timeout, transient network error and unclassified exception) is classified
\* retryable, whatever URL or text its message carries.
C11_NonPermanentRetryable ==
    (retry # "pending" /\ exception.kind \notin PermanentKinds) => retry = "retry"

\* C12: in a batch submitted with the retry override max_retries = n, no URL
\* is attempted more than n times.
C12_OverrideBoundsAttempts ==
    \A i \in Urls : request_max_retries >= 1 => attempt[i] <= request_max_retries

\* C13: when the homepage yields at least one identifier, scrape_url returns
\* it at once and no legal page is fetched in that attempt; legal pages are
\* fetched only after a homepage result with siret, siren and tva all absent.
C13_HomepageShortCircuit ==
    /\ (home_page.state = "done" /\ home_page.identifiers # {}) =>
          /\ legal_return = [kind |-> "return", identifiers |-> home_page.identifiers]
          /\ \A k \in LegalPages : legal_page[k].state = "idle"
    /\ (\E k \in LegalPages : legal_page[k].state # "idle") =>
          (home_page.state = "done" /\ home_page.identifiers = {})

\* The homepage yielded the siret alone and the URL's result is built from it,
\* no legal page having been touched.
C13_Witness ==
    /\ home_page = Done({"siret"})
    /\ extraction.status = "success"
    /\ extraction.identifiers = {"siret"}
    /\ \A k \in LegalPages : legal_page[k].state = "idle"

\* C14: in the legal-page phase the failure of a candidate page counts as an
\* empty result for that page only: the attempt never ends with an exception
\* because of it, every candidate is still examined, and the attempt returns
\* identifiers exactly when some candidate yielded any.
C14_LegalFailureIsEmptyResult ==
    /\ \A k \in LegalPages :
          legal_log[k] # NoFailure => legal_page[k] = [state |-> "done", identifiers |-> {}]
    /\ home_page.state = "done" => legal_return.kind # "raise"
    /\ (home_page.state = "done" /\ home_page.identifiers = {} /\ legal_return.kind = "return") =>
          /\ \A k \in LegalPages : legal_page[k].state = "done"
          /\ legal_return.identifiers # {} <=>
                \E k \in LegalPages : legal_page[k].identifiers # {}

\* The first candidate failed, the second yielded identifiers, and scrape_url
\* returned those.
C14_Witness ==
    /\ legal_log[1] # NoFailure
    /\ legal_page[2].identifiers # {}
    /\ legal_return = [kind |-> "return", identifiers |-> legal_page[2].identifiers]

\* C15: when neither the homepage nor any candidate page yields an identifier,
\* scrape_url returns the all-empty set without raising and the URL's result
\* has status no_data (never error) with siret, siren and tva all absent.
C15_NothingFoundIsNoData ==
    ( /\ home_page.state = "done" /\ home_page.identifiers = {}
      /\ \A k \in LegalPages : legal_page[k].state = "done" /\ legal_page[k].identifiers = {} ) =>
          /\ legal_return.kind # "raise"
          /\ legal_return.identifiers = {}
          /\ extraction.status # "none" =>
                /\ extraction.status = "no_data"
                /\ extraction.identifiers = {}
                /\ ~ extraction.success

\* Nothing was found anywhere (one candidate even failed) and the result is built.
C15_Witness ==
    /\ home_page.state = "done" /\ home_page.identifiers = {}
    /\ \A k \in LegalPages : legal_page[k].state = "done" /\ legal_page[k].identifiers = {}
    /\ legal_log[3] = TimeoutMsg
    /\ extraction.status = "no_data"

\* C16: in the nodriver scrape_site the candidate pages visited after the
\* homepage, legal paths and discovered links together, never exceed
\* max_legal_pages_to_check.
C16_PageCapIsHard == nd_visited <= max_legal_pages_to_check

\* C17: an anti-bot challenge met in headless mode with the fallback configured
\* restarts the resolution in non-headless mode, and does so once only; a
\* challenge met with no fallback left ends with status antibot and no
\* identifiers.
C17_AntibotFallbackOnce ==
    /\ nd_calls <= 2
    /\ nd_calls = 2 => (~ nd_headless /\ ~ nd_retry)
    /\ nd_status = "antibot" =>
          /\ ~ (nd_headless /\ nd_retry)
          /\ ~ nd_identifiers
          /\ nd_pc = "returned"

\* The restarted, non-headless call met the challenge again and gave up.
C17_Witness == nd_calls = 2 /\ nd_status = "antibot"

\* Of the n calls returned[s .. s+n-1], as many returned proxy_list[pos] as the
\* list holds that proxy.
OncePerWindow(s, pos) ==
    LET n == Len(proxy_list) IN
    Cardinality({ j \in s .. (s + n - 1) : returned[j] = proxy_list[pos] })
        = Cardinality({ q \in 1 .. n : proxy_list[q] = proxy_list[pos] })

\* C18 as stated: with a list of n >= 1 proxies and no add/remove in between,
\* the k-th call of get_next_proxy (k = 0, 1, 2, ...) returns proxy_list[k mod n].
C18_RoundRobin ==
    (~ changed /\ Len(proxy_list) >= 1) =>
        \A k \in 1 .. Len(returned) :
            returned[k] = proxy_list[((k - 1) % Len(proxy_list)) + 1]

\* C18, amended: the same for a manager that is enabled (rotation enabled in
\* the settings and a non-empty list); the cursor stands at k mod n after k
\* calls and any n consecutive calls return every proxy of the list once.
C18_RoundRobinWhenEnabled ==
    (~ changed /\ enabled /\ Len(proxy_list) >= 1) =>
        /\ \A k \in 1 .. Len(returned) :
              returned[k] = proxy_list[((k - 1) % Len(proxy_list)) + 1]
        /\ current_index = Len(returned) % Len(proxy_list)
        /\ \A s \in 1 .. (Len(returned) - Len(proxy_list) + 1) :
              \A pos \in 1 .. Len(proxy_list) : OncePerWindow(s, pos)

\* Two different proxies, three calls: the third is the first again.
C18_Witness ==
    /\ ~ changed /\ enabled
    /\ Len(proxy_list) = 2 /\ proxy_list[1] # proxy_list[2]
    /\ returned = << proxy_list[1], proxy_list[2], proxy_list[1] >>

\* C19: with proxy rotation disabled in the settings, get_next_proxy returns
\* none after any sequence of add_proxy, remove_proxy and get_next_proxy calls.
C19_DisabledReturnsNone ==
    ~ proxy_rotation_enabled => \A k \in 1 .. Len(returned) : returned[k] = None

\* C20: a manager constructed with an empty proxy list is disabled and its
\* get_next_proxy returns none, whatever settings.proxy_list contains.
C20_EmptyListDisables ==
    (~ given.is_none /\ given.list = <<>> /\ ~ changed) =>
        /\ ~ enabled
        /\ \A k \in 1 .. Len(returned) : returned[k] = None

\* C21: after any sequence of add_proxy, remove_proxy and get_next_proxy calls
\* on a ProxyManager the cursor is a valid index of a non-empty list, the list
\* holds no proxy twice, and get_next_proxy returns no proxy that was removed
\* and not added again.  (A proxy handed out is a string the caller holds: no
\* later call can change it.)
C21_ListInvariants ==
    /\ Len(proxy_list) > 0 => current_index \in 0 .. (Len(proxy_list) - 1)
    /\ \A j, k \in 1 .. Len(proxy_list) : j # k => proxy_list[j] # proxy_list[k]
    /\ \A k \in 1 .. Len(returned) : returned[k] \notin removed

\* list[(w*K + i) mod |list|], the entry the statement gives worker w at place i.
SliceEntry(w, i) ==
    loaded_proxies[((w * proxies_per_worker + i) % Len(loaded_proxies)) + 1]

C23_SlotProxyAssignment ==
    (Len(request_proxies) > 0 /\ assign_pc = "running") =>
        LET P == request_proxies
            c == concurrent_workers
        IN
        /\ DOMAIN worker_proxies = 0 .. (c - 1)
        /\ \A w \in 0 .. (c - 1) :
              /\ worker_proxies[w] = P[(w % Len(P)) + 1]
              /\ get_proxy_for_worker(P, TRUE, w) = worker_proxies[w]
        /\ \A i \in DOMAIN url_runs :
              /\ url_runs[i].worker_id = i % c
              /\ url_runs[i].proxy_used = P[((i % c) % Len(P)) + 1]
              /\ \A k \in 1 .. Len(url_runs[i].attempts) :
                    url_runs[i].attempts[k] = url_runs[i].proxy_used
        /\ \A i, j \in DOMAIN url_runs :
              url_runs[i].worker_id = url_runs[j].worker_id
                  => url_runs[i].proxy_used = url_runs[j].proxy_used
        /\ (Len(P) = 2 /\ c = 4) =>
              /\ worker_proxies[0] = P[1] /\ worker_proxies[2] = P[1]
              /\ worker_proxies[1] = P[2] /\ worker_proxies[3] = P[2]

\* Two proxies, four workers, four URLs: URL 3 runs in slot 3 under the second
\* proxy and has been retried with it; URL 2 runs in slot 2 under the first.
C23_Witness ==
    /\ Len(request_proxies) = 2 /\ request_proxies[1] # request_proxies[2]
    /\ concurrent_workers = 4 /\ total_urls = 4
    /\ DOMAIN url_runs = 0 .. 3
    /\ url_runs[3].worker_id = 3
    /\ url_runs[3].attempts = << request_proxies[2], request_proxies[2] >>
    /\ url_runs[2].proxy_used = request_proxies[1]

Polled == progress # <<>>

\* C24: get_batch_progress reports no estimated time remaining while
\* completed = 0; once a URL has completed and the batch is still running it
\* reports (total_urls - completed) / (completed / elapsed), which is 0 exactly
\* when completed = total_urls.
C24_EstimateFormula ==
    Polled =>
        LET est == progress.estimated_time_remaining IN
        /\ progress.completed = 0 => est.kind = "None"
        /\ (progress.completed > 0 /\ progress.in_progress) =>
              /\ est.kind = "value"
              /\ est.den > 0
              /\ progress.elapsed_time > 0
              /\ est.num * progress.completed
                    = (progress.total_urls - progress.completed) * progress.elapsed_time * est.den
              /\ (est.num = 0) <=> (progress.completed = progress.total_urls)

\* A poll after one of two URLs completed in two ticks: two ticks remain.
C24_Witness ==
    /\ Polled
    /\ progress.in_progress
    /\ progress.total_urls = 2 /\ progress.completed = 1 /\ progress.elapsed_time = 2
    /\ progress.estimated_time_remaining = [kind |-> "value", num |-> 2, den |-> 1]

\* C25: after a batch has reached in_progress = false every progress snapshot
\* reports the elapsed time the batch had when it completed, however long
\* after completion the snapshot is taken.
C25_ElapsedFrozen ==
    (Polled /\ ~ progress.in_progress) => progress.elapsed_time = batch_duration

\* C26: get_batch_results answers not-found for an unknown batch id and
\* still-in-progress, with no results, while in_progress is true; it returns
\* results only once the batch is terminal, and then total = number of result
\* records = total_urls and successful + failed = total.
C26_ResultsOnlyWhenTerminal ==
    /\ get_batch_results(FALSE).status_code = HTTP_404_NOT_FOUND
    /\ get_batch_results(FALSE).body = NoResults
    /\ LET response == get_batch_results(TRUE) IN
       /\ in_progress =>
             /\ response.status_code = HTTP_400_BAD_REQUEST
             /\ response.body = NoResults
       /\ response.status_code = HTTP_200_OK =>
             /\ ~ in_progress
             /\ response.body.total = Len(response.body.results)
             /\ response.body.total = total_urls
             /\ response.body.successful + response.body.failed = response.body.total

\* A finished batch of two URLs, one found and one not: the call returns both records.
C26_Witness ==
    /\ get_batch_results(TRUE).status_code = HTTP_200_OK
    /\ get_batch_results(TRUE).body.total = 2
    /\ get_batch_results(TRUE).body.successful = 1
    /\ get_batch_results(TRUE).body.failed = 1

\* C27: a batch submission whose URL list is empty, holds more than 100 URLs,
\* holds a duplicate URL or a syntactically invalid URL, or whose concurrency
\* is outside 1..50, is rejected up front with a validation error: no
\* BatchState is created, no background task is started, no fetch is performed.
C27_MalformedRejectedUpFront ==
    ( \/ Len(body_urls) = 0
      \/ Len(body_urls) > 100
      \/ \E j, k \in 1 .. Len(body_urls) : j # k /\ body_urls[j] = body_urls[k]
      \/ \E k \in 1 .. Len(body_urls) : body_urls[k] = NotAUrl
      \/ body_workers < 1
      \/ body_workers > 50 )
    => /\ batch_store = 0
       /\ background_tasks = 0
       /\ fetched = 0
       /\ status_code \in {0, HTTP_422_UNPROCESSABLE_ENTITY}
       /\ submit_pc = "answered" => status_code = HTTP_422_UNPROCESSABLE_ENTITY

\* Two equal URLs with a valid concurrency: answered 422.
C27_Witness ==
    /\ body_urls = << 1, 1 >>
    /\ body_workers = 1
    /\ submit_pc = "answered"
    /\ status_code = HTTP_422_UNPROCESSABLE_ENTITY

NavigationExpired == loaded_after >= navigation_timeout
IdleExpired == idle_after >= page_load_timeout
PageCallOver == page_pc \in {"returned", "propagated", "caught"}

C29_AcquireReturns ==
    \A c \in Callers :
        (acquire_pc[c] \in {"lock", "locked", "sleep", "relock"}) ~> (acquire_pc[c] = "returned")

\* The SIREN a VAT number embeds: its last 9 characters.
SirenOfVat(tva) == LastChars(tva, 9)

\* The identifiers of a result that embed a SIREN of the given denylist.
Denylisted(r, denylist) ==
    \/ r.siren \in denylist
    \/ r.siret # << >> /\ Slice(r.siret, 0, 9) \in denylist
    \/ r.tva # << >> /\ SirenOfVat(r.tva) \in denylist

\* C30: extract_identifiers never returns an identifier of a denylisted
\* company (as the standalone SIREN, as the first 9 digits of the SIRET, or
\* as the SIREN embedded in the VAT number), and having skipped a valid SIRET
\* of a denylisted company it still returns a later valid SIRET of another
\* company.
C30_DenylistNeverReturned ==
    /\ extract_pc = "production" => ~Denylisted(production_result, BLACKLIST_SIRENS)
    /\ extract_pc = "nodriver" =>
           \A k \in 1 .. Len(nodriver_results) :
               ~Denylisted(nodriver_results[k], BLACKLIST_SIRENS_nodriver)
    /\ (/\ extract_pc \in { "production", "nodriver" }
        /\ \E i, j \in 1 .. Len(page_text) :
              /\ i < j
              /\ page_text[i] = Hosting \o << "0", "0", "0", "0", "8" >>
              /\ page_text[j] = Company \o << "0", "0", "0", "0", "5" >>)
       => IF extract_pc = "production"
          THEN production_result.siret = Company \o << "0", "0", "0", "0", "5" >>
          ELSE \E k \in 1 .. Len(nodriver_results) :
                  nodriver_results[k].siret = Company \o << "0", "0", "0", "0", "5" >>

\* C31: for the text "SIRET : 73282932000074", validate_siret and
\* validate_siren accept the SIRET and its SIREN, and extract_identifiers of
\* the production version returns that SIRET and that SIREN.
C31_ScenarioExtracted ==
    (extract_pc = "production" /\ page_text = << ScenarioSiret >>)
    => /\ validate_siret(ScenarioSiret)
       /\ validate_siren(ScenarioSiren)
       /\ production_result.siret = ScenarioSiret
       /\ production_result.siren = ScenarioSiren

\* A VAT number of the form FR + 2 check digits + 9-digit SIREN whose SIREN
\* passes the checksum and whose check digits are (12 + 3 * (siren mod 97)) mod 97.
ValidatedVat(tva) ==
    /\ Len(tva) = 13
    /\ SubSeq(tva, 1, 2) = << "F", "R" >>
    /\ \A i \in 3 .. 13 : tva[i] \in Digit
    /\ luhn_checksum(SubSeq(tva, 5, 13))
    /\ IntOf(SubSeq(tva, 3, 4)) = (12 + 3 * (IntOf(SubSeq(tva, 5, 13)) % 97)) % 97

\* C32: every VAT number returned by extract_identifiers is validated: FR,
\* 2 check digits and a 9-digit SIREN that passes the SIREN checksum, the
\* check digits being (12 + 3 * (siren mod 97)) mod 97; a VAT-shaped
\* candidate failing either condition is never returned.
C32_ReturnedVatValidated ==
    /\ (extract_pc = "production" /\ production_result.tva # << >>)
       => ValidatedVat(production_result.tva)
    /\ extract_pc = "nodriver"
       => \A k \in 1 .. Len(nodriver_results) :
              nodriver_results[k].tva # << >> => ValidatedVat(nodriver_results[k].tva)

\* The string holds a character that is not an ASCII digit, the FR of a VAT
\* number aside.
NonAsciiDigit(s) ==
    \E i \in 1 .. Len(s) :
        /\ s[i] \notin Digit
        /\ ~(validator_called = "validate_tva" /\ i <= 2 /\ s[i] \in { "F", "R" })

\* C33: validate_siret, validate_siren and validate_tva are total: called
\* with any string they return a boolean and never raise, and they return
\* False for a string holding a character that is not an ASCII digit.
C33_ValidatorsTotal ==
    validator_called # "none"
    => /\ validator_outcome \in { "True", "False" }
       /\ NonAsciiDigit(validator_input) => validator_outcome = "False"

\* Section k yields an identifier.
Yields(k) == any_identifier(production_extract_identifiers(search_sections[k]))

\* The non-empty sections among the first n, in order.
NonEmptyUpTo(n) == SelectSeq(SubSeq(search_sections, 1, n), LAMBDA text : text # << >>)

\* C34: search_in_priority_areas returns the extraction result of the first
\* section, in the given order, whose result has at least one identifier,
\* and consults neither a later section nor the full page; when no section
\* yields an identifier it returns extract_identifiers(full page text).
C34_FirstYieldingSection ==
    search_pc = "returned"
    => /\ \A k \in 1 .. Len(search_sections) :
              (Yields(k) /\ \A h \in 1 .. k - 1 : ~Yields(h))
              => /\ search_result = production_extract_identifiers(search_sections[k])
                 /\ search_consulted = NonEmptyUpTo(k)
       /\ (\A k \in 1 .. Len(search_sections) : ~Yields(k))
          => /\ search_result = production_extract_identifiers(search_page)
             /\ search_consulted = Append(NonEmptyUpTo(Len(search_sections)), search_page)

\* The first section yields nothing, the second yields an identifier, and
\* the full page would have yielded another.
C34_Witness ==
    /\ search_pc = "returned"
    /\ Len(search_sections) = 2
    /\ search_sections[1] = << Hosting >>
    /\ Yields(2)
    /\ production_extract_identifiers(search_page) # search_result
    /\ any_identifier(production_extract_identifiers(search_page))
    /\ search_consulted = search_sections

\* The records of the result list with status success.
SuccessRecords == { k \in 1 .. Len(results) : results[k].status = "success" }

\* C37: in every state (each one can be observed by a progress or results
\* query) the result list holds as many records as completed counts, and as
\* many records with status success as success counts: a completion updates
\* the counters and appends its record in one step.
C37_CountersMatchRecords ==
    /\ Len(results) = completed
    /\ Cardinality(SuccessRecords) = success

\* One URL has completed with identifiers and one with an error, the batch
\* still running.
C37_Witness ==
    /\ in_progress
    /\ Len(results) = 2
    /\ Cardinality(SuccessRecords) = 1
    /\ \E k \in 1 .. Len(results) : results[k].status = "error"

\* C38: every context checked out by scrape_url goes back to the pool exactly
\* once when the attempt ends, with a result or with an exception, on every
\* attempt: the step that ends an attempt appends the context it held to the
\* pool, no context is ever twice in the pool, and once the batch has
\* completed no context is checked out and every context created is pooled.
C38_ContextsReturnedOnce ==
    /\ [](/\ \A k, h \in 1 .. Len(context_pool) : k # h => context_pool[k] # context_pool[h]
          /\ bgpc = "cleanup"
             => /\ \A i \in Urls : held[i] = NoContext
                /\ Len(context_pool) = created)
    /\ [][\A i \in Urls :
             /\ (pc[i] = "closing" /\ pc'[i] # "closing")
                => (held'[i] = NoContext /\ context_pool' = Append(context_pool, held[i]))
             /\ (held[i] # NoContext /\ held'[i] # held[i]) => pc[i] = "closing"]_vars

\* The batch has completed after an attempt that failed and was retried and
\* after a context was created on demand: all of them are pooled.
C38_Witness ==
    /\ bgpc = "cleanup"
    /\ created > pool_size
    /\ Len(context_pool) = created
    /\ \E k \in 1 .. Len(results) : results[k].status = "error"

\* C35: every page fetch made for a URL goes through the proxy assigned to
\* the URL's worker slot, the one recorded as proxy_used in its result; with
\* no proxy assigned the fetches go direct and proxy_used is absent.
C35_FetchesUseAssignedProxy ==
    /\ \A index \in DOMAIN tasks :
          \A k \in 1 .. Len(tasks[index].egress) :
              tasks[index].egress[k] = tasks[index].proxy_used
    /\ \A r \in 1 .. Len(task_results) :
          /\ task_results[r].proxy_used = tasks[task_results[r].url].proxy_used
          /\ \A k \in 1 .. Len(tasks[task_results[r].url].egress) :
                tasks[task_results[r].url].egress[k] = task_results[r].proxy_used

\* C36: a worker slot is held by at most one in-flight URL at a time: no two
\* URLs in flight together carry the same worker_id.
C36_SlotHeldByOneUrl ==
    \A i, j \in DOMAIN tasks :
        (i # j /\ tasks[i].state = "scraping" /\ tasks[j].state = "scraping")
        => tasks[i].worker_id # tasks[j].worker_id

\* The results recorded for the URL at position k, and the workers holding it.
ResultsOfUrl(k) == { r \in 1 .. Len(pool_results) : pool_results[r].url = k }
HoldersOfUrl(k) == { wk \in DOMAIN workers : workers[wk].url = k }
Scraping == { wk \in DOMAIN workers : workers[wk].pc = "scraping" }

\* C39: in WorkerPool.run, for any URL list and max_workers >= 1, every URL
\* is taken from the queue by one worker only and yields one ScrapeResult
\* only, at most max_workers sites are being scraped at any time, and run
\* eventually returns, with every worker finished and as many results as URLs.
C39_RunProcessesEveryUrlOnce ==
    /\ [](/\ Cardinality(Scraping) <= pool_max_workers
          /\ \A k \in 1 .. run_urls :
                /\ Cardinality(HoldersOfUrl(k)) <= 1
                /\ Cardinality(ResultsOfUrl(k)) <= 1
                /\ (HoldersOfUrl(k) # {} /\ ResultsOfUrl(k) # {})
                   => \A wk \in HoldersOfUrl(k) : workers[wk].pc = "sleeping"
          /\ run_pc = "returned"
             => /\ Len(pool_results) = run_urls
                /\ \A k \in 1 .. run_urls : Cardinality(ResultsOfUrl(k)) = 1
                /\ \A wk \in DOMAIN workers : workers[wk].pc = "finished")
    /\ <>(run_pc = "returned")

\* run has returned after three URLs were shared out between two workers, one
\* of them ending with an error result.
C39_Witness ==
    /\ run_pc = "returned"
    /\ run_urls = 2
    /\ pool_max_workers = 2
    /\ \E r \in 1 .. Len(pool_results) : pool_results[r].status = "error"
    /\ \E r \in 1 .. Len(pool_results) : pool_results[r].worker_id = 1
    /\ \E r \in 1 .. Len(pool_results) : pool_results[r].worker_id = 0

\* The tasks running inside the pool.
RunningTasks == { t \in DOMAIN gate_tasks : gate_tasks[t].pc = "running" }

\* C40: at any time at most max_workers tasks submitted through the pool are
\* running, max_workers being the value in force, whatever the interleaving
\* of submissions and set_max_workers calls; and set_max_workers with a value
\* below 1 raises and leaves max_workers and the semaphore as they were.
C40_AtMostMaxWorkersRunning ==
    /\ Cardinality(RunningTasks) <= gate_max_workers
    /\ (last_set # << >> /\ last_set.max_workers < 1)
       => /\ last_set.raised
          /\ gate_max_workers = last_set.max_before
          /\ gate_semaphore = last_set.semaphore_before

====
